---- MODULE Spec2Model ----
(***************************************************************************)
(* Incremental IMAP synchronization engine of OpenArchiver                 *)
(* (ImapConnector: connect, withRetry, fetchEmails, getUpdatedSyncState)   *)
(* together with the IMAP server it talks to and the caller that consumes  *)
(* the lazy message sequence and hands the returned sync state to the next *)
(* cycle.                                                                  *)
(***************************************************************************)
EXTENDS Integers, Sequences, FiniteSets, TLC

(***************************************************************************)
(* Bounds of the model.                                                    *)
(***************************************************************************)
\* Messages the server holds in total, over all mailboxes, in the runs that
\* record what is yielded (Spec) and in the runs that record what withRetry
\* does (SpecRetry).
MaxMsgs == 2
MaxMsgsRetry == 1
\* Sync cycles the caller runs one after another.
MaxCycles == 2
\* Messages on the server that are not "ok" (see Kinds).
MaxDefects == 1
\* Ticks of the clock in a run of the OAuth code.
MaxTime == 3
\* Token responses the provider issues in a run.
MaxIssued == 2
\* start requests answered in a run
MaxFlows == 2
\* how far the clock of the authorization flow runs, in ticks
MaxClock == 7

(***************************************************************************)
(* Program constants.                                                      *)
(***************************************************************************)
\* withRetry(action, maxRetries = 5)
MaxRetries == 5
\* const BATCH_SIZE = 250
BATCH_SIZE == 250
\* Math.random() * 1000: a jitter of 0 <= j < 1000 milliseconds
JitterRange == 1000

\* The value of syncState?.imap?.[mailboxPath]?.maxUid when any link is absent.
Undefined == -1

(***************************************************************************)
(* The server's mailbox listing (client.list()): path, flags, specialUse.  *)
(***************************************************************************)
NoSpecialUse == "none"

Listing ==
    << [path |-> "INBOX",  flags |-> {},             specialUse |-> NoSpecialUse],
       [path |-> "Spam",   flags |-> {},             specialUse |-> "\\Junk"],
       [path |-> "Parent", flags |-> {"\\Noselect"}, specialUse |-> NoSpecialUse] >>

Paths == {Listing[i].path : i \in 1..Len(Listing)}

\* Mailboxes that can hold messages.
SelectablePaths == {Listing[i].path : i \in {j \in 1..Len(Listing) : "\\Noselect" \notin Listing[j].flags}}

\* What a message is to the engine: "ok" parses, "bad" makes simpleParser throw,
\* "bare" comes back from FETCH without envelope or source.
Kinds == {"ok", "bad", "bare"}

\* Gaps between the UIDs the server assigns (UIDs ascend, not always densely).
UidGaps == {1, BATCH_SIZE}

\* The jitter values tried: the two ends of [0, JitterRange).
Jitters == {0, JitterRange - 1}

\* Positions a first cycle may be handed for INBOX: none, or one persisted by an
\* earlier run (possibly above every UID now present: the newest messages were
\* expunged since).
InitPositions == {Undefined, BATCH_SIZE + 1}

VARIABLES
    \* server
    mbox,               \* path -> set of [uid, kind]
    \* configuration
    allInclusiveArchive,\* config.app.allInclusiveArchive
    useOAuth,           \* credentials.useOAuth
    \* caller
    syncState,          \* the syncState.imap handed to the running cycle: path -> maxUid
    cycle,              \* cycles started so far
    outcome,            \* how the last fetchEmails ended
    \* connector object
    client,             \* this.client: [usable, failed]
    newMaxUids,         \* this.newMaxUids: path -> uid
    statusMessage,      \* this.statusMessage is set
    \* generator frame of fetchEmails
    pc,
    retry,              \* withRetry's frame: op, attempt and what it has done
    queue,              \* processableMailboxes still to go, the current one first
    loc,                \* locals of the mailbox loop body
    \* what a run records and how much mail its server takes
    instr,              \* withRetry's calls and delays and the clients' failures are recorded
    capacity,           \* messages the server takes in this run
    \* history
    yielded,            \* << <<path, uid>> >> yielded in this cycle, in order
    everYielded,        \* <<path, uid>> yielded in earlier cycles
    atOpen,             \* path -> UIDs present when the mailbox was opened in this cycle
    mbStatus,           \* path -> none | ok | failed | stopped in this cycle
    firstState,         \* the syncState the first cycle was handed
    quiet,              \* no message has arrived since this cycle started
    rerun,              \* the cycle before this one completed every mailbox, in quiet
    \* the filter taken alone
    filterIn,           \* a listing client.list() returned
    filterOut,          \* processableMailboxes computed from it, or Unfiltered
    \* the token store, the provider and the calls of the OAuth code
    tokens,             \* the rows of table oauth_tokens
    now,                \* the clock (new Date(), Date.now())
    issued,             \* token responses the provider has issued
    frame,              \* caller -> the frame of its call in progress
    \* the authorization flow of OAuthController
    pkceSessionStore,   \* the Map pkceSessionStore: state -> PKCESession
    nextSweep,          \* when the setInterval timer of the sweep fires next
    flows,              \* the start requests answered so far, and what became of their sessions
    req,                \* user -> the frame of that user's callback in progress
    reply               \* the request answered last, and the answer

vars == << instr, capacity, mbox, allInclusiveArchive, useOAuth, syncState, cycle, outcome, client,
           newMaxUids, statusMessage, pc, retry, queue, loc, yielded, everYielded,
           atOpen, mbStatus, firstState, quiet, rerun, filterIn, filterOut,
           tokens, now, issued, frame, pkceSessionStore, nextSweep, flows, req, reply >>

serverVars == << mbox, quiet >>
flowVars == << pkceSessionStore, nextSweep, flows, req, reply >>
oauthVars == << tokens, now, issued, frame, flowVars >>
configVars == << instr, capacity, allInclusiveArchive, useOAuth, firstState, rerun,
                filterIn, filterOut, oauthVars >>

(***************************************************************************)
(* Helpers.                                                                *)
(***************************************************************************)
Max(S) == CHOOSE x \in S : \A y \in S : y <= x
Min2(a, b) == IF a <= b THEN a ELSE b

Uids(path) == {m.uid : m \in mbox[path]}
KindOf(path, uid) == (CHOOSE m \in mbox[path] : m.uid = uid).kind
TotalMsgs == Cardinality(UNION {{<<p, u>> : u \in Uids(p)} : p \in SelectablePaths})
Defects == Cardinality(UNION {{<<p, m.uid>> : m \in {x \in mbox[p] : x.kind # "ok"}} :
                                 p \in SelectablePaths})

RECURSIVE Ascending(_)
Ascending(S) == IF S = {} THEN <<>>
                ELSE LET lo == CHOOSE x \in S : \A y \in S : x <= y
                     IN  <<lo>> \o Ascending(S \ {lo})

\* The UID of the message with sequence number n (messages are numbered in UID order).
UidAtSeq(path, n) == Ascending(Uids(path))[n]

RangeOf(s) == {s[i] : i \in 1..Len(s)}
EmptyMap == [p \in {} |-> 0]

\* JavaScript's x || 0 and truthiness of an optional number.
OrZero(x) == IF x = Undefined THEN 0 ELSE x
Truthy(x) == x # Undefined /\ x # 0

\* A comparison of the special-use tag that keeps its case (C14 does not hold of it).
SameCase(s) == s

\* String.prototype.toLowerCase on the special-use tags a server reports.
ToLowerCase(s) ==
    CASE s = "\\Junk"  -> "\\junk"
      [] s = "\\Trash" -> "\\trash"
      [] s = "\\JUNK"  -> "\\junk"
      [] s = "\\TRASH" -> "\\trash"
      [] OTHER         -> s

\* fetchEmails: the predicate of processableMailboxes = mailboxes.filter(...)
Processable(mailbox, allInclusive) ==
    IF "\\Noselect" \in mailbox.flags THEN FALSE
    ELSE IF allInclusive THEN TRUE
    ELSE IF mailbox.specialUse # NoSpecialUse
            /\ ToLowerCase(mailbox.specialUse) \in {"\\junk", "\\trash"} THEN FALSE
    ELSE IF "\\Trash" \in mailbox.flags \/ "\\Junk" \in mailbox.flags THEN FALSE
    ELSE TRUE

\* A filter that hands the mailboxes on in reverse (C15 does not hold of it).
ReversedMailboxes(listing, allInclusive) ==
    LET kept == SelectSeq(listing, LAMBDA mailbox : Processable(mailbox, allInclusive))
    IN  [i \in 1..Len(kept) |-> kept[Len(kept) + 1 - i]]

ProcessableMailboxes(listing, allInclusive) ==
    SelectSeq(listing, LAMBDA mailbox : Processable(mailbox, allInclusive))

PathsOf(listing) == [i \in 1..Len(listing) |-> listing[i].path]

\* const lastUid = syncState?.imap?.[mailboxPath]?.maxUid
LastUid(path) == IF path \in DOMAIN syncState THEN syncState[path] ELSE Undefined

\* A withRetry that never gives up at the catch (C7 does not hold of it).
NeverExhausted(attempt) == FALSE

\* withRetry: attempt === maxRetries
RetriesExhausted(attempt) == attempt = MaxRetries

\* A linear backoff (C8 does not hold of it).
LinearDelay(attempt) == attempt * 1000

\* withRetry: const delay = Math.pow(2, attempt) * 1000
BackoffDelay(attempt) == (2 ^ attempt) * 1000

\* A batch end that is not clamped to maxUidToFetch (C5 does not hold of it).
EndUidUnclamped(startUid, maxUidToFetch) == startUid + BATCH_SIZE - 1

\* fetchEmails: const endUid = Math.min(startUid + BATCH_SIZE - 1, maxUidToFetch)
EndUid(startUid, maxUidToFetch) == Min2(startUid + BATCH_SIZE - 1, maxUidToFetch)

\* fetchEmails: if (msg.uid > this.newMaxUids[mailboxPath]) this.newMaxUids[mailboxPath] = msg.uid
TrackMaxUid(tracked, uid) == IF uid > tracked THEN uid ELSE tracked

\* fetchEmails: if (lastUid && msg.uid <= lastUid) continue
AlreadySynced(lastUid, uid) == Truthy(lastUid) /\ uid <= lastUid

\* A currentMaxUid that ignores the newest message (C1 does not hold of it).
StaleCurrentMaxUid(lastUid, lastMessageUid) == OrZero(lastUid)

\* fetchEmails: if (lastMessage && lastMessage.uid > currentMaxUid) currentMaxUid = lastMessage.uid
CurrentMaxUid(lastUid, lastMessageUid) ==
    IF lastMessageUid > OrZero(lastUid) THEN lastMessageUid ELSE OrZero(lastUid)

\* A position that restarts from 0 (C4 does not hold of it).
TrackFromZero(lastUid) == 0

\* fetchEmails: this.newMaxUids[mailboxPath] = lastUid || 0
InitialTracked(lastUid) == OrZero(lastUid)

\* fetchEmails: let startUid = (lastUid || 0) + 1
FirstStartUid(lastUid) == OrZero(lastUid) + 1

\* fetchEmails: if (msg.envelope && msg.source)
HasEnvelopeAndSource(kind) == kind # "bare"

\* fetchEmails: err.message.includes('IMAP operation failed after all retries').
\* Errors are named by where they come from; only the Error of withRetry's last
\* line ("allRetries") carries that text.
IncludesRetriesPhrase(err) == err = "allRetries"

\* withRetry: the error thrown when the last attempt fails (throw err: the
\* operation's own error).
ExhaustedError(err) == err

\* A new ImapFlow object (createClient / new ImapFlow in connect).
NewClient == [usable |-> FALSE, failed |-> FALSE]

\* A disconnect that does not log out (C13 does not hold of it).
KeepOpen(cl) == cl

\* disconnect(): if (this.client.usable) await this.client.logout()
Disconnect(cl) == IF cl.usable THEN [cl EXCEPT !.usable = FALSE] ELSE cl

\* Entry of withRetry for one operation: for (let attempt = 1; ...)
NewRetry(operation) ==
    [op |-> operation, attempt |-> 1, opCalls |-> 0, connFails |-> 0, nDelays |-> 0,
     lastDelay |-> 0]
NoRetry == [NewRetry("none") EXCEPT !.attempt = 0]

NoLoc == [exists |-> 0, currentMaxUid |-> 0, startUid |-> 0, endUid |-> 0,
          cursor |-> 0, msgUid |-> 0]

\* Every mailbox the cycle had to process has been processed without a failure.
AllMailboxesOk ==
    \A p \in RangeOf(PathsOf(ProcessableMailboxes(Listing, allInclusiveArchive))) :
        mbStatus[p] = "ok"

\* getUpdatedSyncState()
GetUpdatedSyncState == [imap |-> newMaxUids, statusMessage |-> statusMessage]

(***************************************************************************)
(* Initial state: a constructed connector, an empty server, no cycle run.  *)
(***************************************************************************)
InitBase ==
    /\ mbox = [p \in SelectablePaths |-> {}]
    /\ allInclusiveArchive \in BOOLEAN
    /\ \E pos \in InitPositions :
          syncState = IF pos = Undefined THEN EmptyMap ELSE [p \in {"INBOX"} |-> pos]
    /\ firstState = syncState
    /\ cycle = 0
    /\ outcome = "none"
    /\ client = NewClient
    /\ newMaxUids = EmptyMap
    /\ statusMessage = FALSE
    /\ pc = "idle"
    /\ retry = NoRetry
    /\ queue = <<>>
    /\ loc = NoLoc
    /\ yielded = <<>>
    /\ everYielded = {}
    /\ atOpen = EmptyMap
    /\ mbStatus = [p \in Paths |-> "none"]
    /\ quiet = FALSE
    /\ rerun = FALSE

\* Runs in which no request reaches OAuthController.
NoFlowRun ==
    /\ pkceSessionStore = EmptyMap
    /\ nextSweep = 0
    /\ flows = <<>>
    /\ req = <<>>
    /\ reply = <<>>

\* Runs in which the OAuth code is not followed: no credential, no call.
NoOAuthRun ==
    /\ tokens = {}
    /\ now = 0
    /\ issued = 0
    /\ frame = <<>>
    /\ NoFlowRun

\* Runs that record the messages yielded, over a server with more mail; the
\* connector authenticates with the password.
Init ==
    /\ InitBase
    /\ useOAuth = FALSE
    /\ instr = FALSE
    /\ capacity = MaxMsgs
    /\ filterIn = <<>>
    /\ filterOut = <<>>
    /\ NoOAuthRun

\* Runs that record what withRetry does, over a server with less mail; the
\* connector authenticates with the password or with an OAuth bearer token.
InitRetry ==
    /\ InitBase
    /\ useOAuth \in BOOLEAN
    /\ instr = TRUE
    /\ capacity = MaxMsgsRetry
    /\ filterIn = <<>>
    /\ filterOut = <<>>
    /\ NoOAuthRun

(***************************************************************************)
(* The server: a message arrives in a mailbox and gets the next UID.       *)
(***************************************************************************)
Deliver(path, gap, kind) ==
    /\ TotalMsgs < capacity
    /\ kind # "ok" => Defects < MaxDefects
    /\ LET uid == (IF Uids(path) = {} THEN 0 ELSE Max(Uids(path))) + gap
       IN  mbox' = [mbox EXCEPT ![path] = @ \cup {[uid |-> uid, kind |-> kind]}]
    /\ quiet' = FALSE
    /\ UNCHANGED << configVars, syncState, cycle, outcome, client,
                    newMaxUids, statusMessage, pc, retry, queue, loc, yielded,
                    everYielded, atOpen, mbStatus >>

(***************************************************************************)
(* The caller starts a cycle: a connector is constructed and fetchEmails   *)
(* is called with the sync state the previous cycle returned; the generator*)
(* runs to its first await, connect() inside withRetry(list).              *)
(***************************************************************************)
StartCycle ==
    /\ pc \in {"idle", "done"}
    /\ cycle < MaxCycles
    /\ cycle' = cycle + 1
    /\ syncState' = IF pc = "idle" THEN syncState ELSE GetUpdatedSyncState.imap
    /\ everYielded' = everYielded \cup RangeOf(yielded)
    /\ yielded' = <<>>
    /\ client' = NewClient
    /\ newMaxUids' = EmptyMap
    /\ statusMessage' = FALSE
    /\ outcome' = "running"
    /\ pc' = "connect"
    /\ retry' = NewRetry("list")
    /\ queue' = <<>>
    /\ loc' = NoLoc
    /\ atOpen' = EmptyMap
    /\ mbStatus' = [p \in Paths |-> "none"]
    /\ quiet' = TRUE
    /\ rerun' = (pc = "done" /\ outcome = "completed" /\ quiet /\ AllMailboxesOk)
    /\ UNCHANGED << mbox, instr, capacity, allInclusiveArchive, useOAuth, firstState,
                    filterIn, filterOut, oauthVars >>

\* A mailbox loop without its catch: a failure of the mailbox ends the cycle
\* (C11 does not hold of it).
EndMailboxUncaught(status, err, cl) ==
    /\ mbStatus' = [mbStatus EXCEPT ![Head(queue)] = status]
    /\ statusMessage' = statusMessage
    /\ queue' = Tail(queue)
    /\ loc' = NoLoc
    /\ IF Tail(queue) = <<>> \/ status = "failed"
       THEN /\ pc' = "done"
            /\ outcome' = IF status = "failed" THEN "raised" ELSE "completed"
            /\ client' = Disconnect(cl)
            /\ retry' = NoRetry
       ELSE /\ pc' = "connect"
            /\ outcome' = outcome
            /\ client' = cl
            /\ retry' = NewRetry("open")

(***************************************************************************)
(* The end of the mailbox at the head of the queue, normally ("ok") or in  *)
(* the catch of the mailbox loop ("failed", with the error caught), with   *)
(* cl the client as the ending step leaves it: the loop goes on to the next*)
(* mailbox, or ends and the finally block disconnects.                     *)
(***************************************************************************)
EndMailbox(status, err, cl) ==
    /\ mbStatus' = [mbStatus EXCEPT ![Head(queue)] = status]
    /\ statusMessage' = IF status = "failed" /\ IncludesRetriesPhrase(err)
                        THEN TRUE ELSE statusMessage
    /\ queue' = Tail(queue)
    /\ loc' = NoLoc
    /\ IF Tail(queue) = <<>>
       THEN /\ pc' = "done"
            /\ outcome' = "completed"
            /\ client' = Disconnect(cl)
            /\ retry' = NoRetry
       ELSE /\ pc' = "connect"
            /\ outcome' = outcome
            /\ client' = cl
            /\ retry' = NewRetry("open")

(***************************************************************************)
(* connect()                                                               *)
(***************************************************************************)
\* if (this.client.usable) return
ConnectReuse ==
    /\ pc = "connect"
    /\ client.usable
    /\ pc' = "action"
    /\ UNCHANGED << serverVars, configVars, syncState, cycle, outcome, client, newMaxUids,
                    statusMessage, retry, queue, loc, yielded, everYielded, atOpen, mbStatus >>

\* A new client object is created (with the bearer token when useOAuth) and
\* client.connect() succeeds.
ConnectOk ==
    /\ pc = "connect"
    /\ ~client.usable
    /\ client' = [NewClient EXCEPT !.usable = TRUE]
    /\ pc' = "action"
    /\ UNCHANGED << serverVars, configVars, syncState, cycle, outcome, newMaxUids,
                    statusMessage, retry, queue, loc, yielded, everYielded, atOpen, mbStatus >>

\* What connect() leaves of this.client when it throws: no token could be had
\* (no client is created), or client.connect() of the new client failed.
ClientAfterConnectFailure(cl, err) ==
    IF err = "token" THEN cl ELSE [NewClient EXCEPT !.failed = instr]

\* What a failed operation leaves of the client it ran on: the connection is
\* lost (usable = false) or the server only refused the command (still usable).
ClientAfterOpFailure(cl, staysUsable) ==
    [cl EXCEPT !.usable = staysUsable, !.failed = instr]

ConnectErrors == IF useOAuth THEN {"token", "transport"} ELSE {"transport"}

(***************************************************************************)
(* withRetry: the catch block.  An attempt fails in connect() or in the    *)
(* action; before the last attempt the loop computes the delay and sleeps. *)
(***************************************************************************)
AttemptFails(err, staysUsable) ==
    /\ \/ /\ pc = "connect"
          /\ ~client.usable
          /\ err \in ConnectErrors
          /\ staysUsable = FALSE
       \/ /\ pc = "action"
          /\ err = "op"
    /\ ~RetriesExhausted(retry.attempt)
    /\ \E jitter \in Jitters :
          retry' = [retry EXCEPT
                      !.opCalls = IF instr /\ pc = "action" THEN @ + 1 ELSE @,
                      !.connFails = IF instr /\ pc = "connect" THEN @ + 1 ELSE @,
                      !.nDelays = IF instr THEN @ + 1 ELSE @,
                      !.lastDelay = IF instr THEN BackoffDelay(retry.attempt) + jitter
                                    ELSE @]
    /\ client' = IF pc = "connect" THEN ClientAfterConnectFailure(client, err)
                 ELSE ClientAfterOpFailure(client, staysUsable)
    /\ pc' = "backoff"
    /\ UNCHANGED << serverVars, configVars, syncState, cycle, outcome, newMaxUids,
                    statusMessage, queue, loc, yielded, everYielded, atOpen, mbStatus >>

\* A loop that counts attempts in twos (C6 does not hold of it).
SkipAttempt(attempt) == attempt + 2

\* withRetry: attempt++
NextAttempt(attempt) == attempt + 1

\* withRetry: the loop condition attempt <= maxRetries
LoopGoesOn(attempt) == attempt <= MaxRetries

\* The timer fires: attempt++ and the loop condition is tested; the loop body runs
\* again or, the loop left, the last line throws
\* Error('IMAP operation failed after all retries.').
BackoffOver ==
    /\ pc = "backoff"
    /\ IF LoopGoesOn(NextAttempt(retry.attempt))
       THEN /\ retry' = [retry EXCEPT !.attempt = NextAttempt(@)]
            /\ pc' = "connect"
            /\ UNCHANGED << outcome, client, statusMessage, queue, loc, mbStatus >>
       ELSE IF retry.op = "list"
       THEN /\ retry' = [retry EXCEPT !.attempt = NextAttempt(@)]
            /\ pc' = "done"
            /\ outcome' = "raised"
            /\ client' = Disconnect(client)
            /\ UNCHANGED << statusMessage, queue, loc, mbStatus >>
       ELSE EndMailbox("failed", "allRetries", client)
    /\ UNCHANGED << serverVars, configVars, syncState, cycle, newMaxUids,
                    yielded, everYielded, atOpen >>

\* The last attempt of withRetry(list) fails: throw err leaves fetchEmails through
\* its finally block.
ListGivesUp(err, staysUsable) ==
    /\ retry.op = "list"
    /\ \/ /\ pc = "connect"
          /\ ~client.usable
          /\ err \in ConnectErrors
          /\ staysUsable = FALSE
       \/ /\ pc = "action"
          /\ err = "op"
    /\ RetriesExhausted(retry.attempt)
    /\ retry' = [retry EXCEPT !.opCalls = IF instr /\ pc = "action" THEN @ + 1 ELSE @,
                              !.connFails = IF instr /\ pc = "connect" THEN @ + 1 ELSE @]
    /\ client' = Disconnect(IF pc = "connect" THEN ClientAfterConnectFailure(client, err)
                            ELSE ClientAfterOpFailure(client, staysUsable))
    /\ pc' = "done"
    /\ outcome' = "raised"
    /\ UNCHANGED << serverVars, configVars, syncState, cycle, newMaxUids, statusMessage,
                    queue, loc, yielded, everYielded, atOpen, mbStatus >>

\* The last attempt of withRetry(mailboxOpen) fails: throw err is caught by the
\* catch of the mailbox loop.
OpenGivesUp(err, staysUsable) ==
    /\ retry.op = "open"
    /\ \/ /\ pc = "connect"
          /\ ~client.usable
          /\ err \in ConnectErrors
          /\ staysUsable = FALSE
       \/ /\ pc = "action"
          /\ err = "op"
    /\ RetriesExhausted(retry.attempt)
    /\ EndMailbox("failed", ExhaustedError(err),
                  IF pc = "connect" THEN ClientAfterConnectFailure(client, err)
                  ELSE ClientAfterOpFailure(client, staysUsable))
    /\ UNCHANGED << serverVars, configVars, syncState, cycle, newMaxUids, yielded,
                    everYielded, atOpen >>

(***************************************************************************)
(* withRetry: the action succeeds and its result is returned.              *)
(***************************************************************************)
\* const mailboxes = await this.withRetry(async () => await this.client.list()),
\* the filter, and the first turn of the mailbox loop up to connect() inside
\* withRetry(mailboxOpen).
ListOk ==
    /\ pc = "action"
    /\ retry.op = "list"
    /\ LET todo == PathsOf(ProcessableMailboxes(Listing, allInclusiveArchive))
       IN  /\ queue' = todo
           /\ IF todo = <<>>
              THEN /\ pc' = "done"
                   /\ outcome' = "completed"
                   /\ client' = Disconnect(client)
                   /\ retry' = NoRetry
              ELSE /\ pc' = "connect"
                   /\ outcome' = outcome
                   /\ client' = client
                   /\ retry' = NewRetry("open")
    /\ UNCHANGED << serverVars, configVars, syncState, cycle, newMaxUids, statusMessage,
                    loc, yielded, everYielded, atOpen, mbStatus >>

\* const mailbox = await this.withRetry(... mailboxOpen(mailboxPath)) returns,
\* with mailbox.exists > 0: the generator goes on to await fetchOne.
OpenOkNonEmpty ==
    /\ pc = "action"
    /\ retry.op = "open"
    /\ LET path == Head(queue)
       IN  /\ Cardinality(mbox[path]) > 0
           /\ atOpen' = [p \in DOMAIN atOpen \cup {path} |->
                            IF p = path THEN Uids(path) ELSE atOpen[p]]
           /\ loc' = [NoLoc EXCEPT !.exists = Cardinality(mbox[path]),
                                   !.currentMaxUid = OrZero(LastUid(path))]
    /\ retry' = IF instr THEN [retry EXCEPT !.opCalls = @ + 1] ELSE NoRetry
    /\ pc' = "fetchOne"
    /\ UNCHANGED << serverVars, configVars, syncState, cycle, outcome, client, newMaxUids,
                    statusMessage, queue, yielded, everYielded, mbStatus >>

\* mailboxOpen returns with mailbox.exists = 0: the position is initialised, no
\* fetch is made and the loop goes on.
OpenOkEmpty ==
    /\ pc = "action"
    /\ retry.op = "open"
    /\ LET path == Head(queue)
       IN  /\ Cardinality(mbox[path]) = 0
           /\ atOpen' = [p \in DOMAIN atOpen \cup {path} |->
                            IF p = path THEN {} ELSE atOpen[p]]
           /\ newMaxUids' = [p \in DOMAIN newMaxUids \cup {path} |->
                                IF p = path THEN InitialTracked(LastUid(path))
                                ELSE newMaxUids[p]]
    /\ EndMailbox("ok", "none", client)
    /\ UNCHANGED << serverVars, configVars, syncState, cycle, yielded, everYielded >>

(***************************************************************************)
(* The body of the mailbox loop after the open.                            *)
(***************************************************************************)
\* fetchOne(String(mailbox.exists), {uid: true}) returns the newest message;
\* currentMaxUid, this.newMaxUids[mailboxPath], startUid and maxUidToFetch are set.
FetchOneOk ==
    /\ pc = "fetchOne"
    /\ LET path == Head(queue)
           lastUid == LastUid(path)
       IN  /\ loc' = [loc EXCEPT
                        !.currentMaxUid = CurrentMaxUid(lastUid, UidAtSeq(path, loc.exists)),
                        !.startUid = FirstStartUid(lastUid)]
           /\ newMaxUids' = [p \in DOMAIN newMaxUids \cup {path} |->
                                IF p = path THEN InitialTracked(lastUid) ELSE newMaxUids[p]]
    /\ pc' = "batch"
    /\ retry' = NoRetry
    /\ UNCHANGED << serverVars, configVars, syncState, cycle, outcome, client,
                    statusMessage, queue, yielded, everYielded, atOpen, mbStatus >>

\* fetchOne throws: it is not inside withRetry, the catch of the mailbox loop
\* takes the error.
FetchOneFails(staysUsable) ==
    /\ pc = "fetchOne"
    /\ EndMailbox("failed", "op", ClientAfterOpFailure(client, staysUsable))
    /\ UNCHANGED << serverVars, configVars, syncState, cycle, newMaxUids, yielded,
                    everYielded, atOpen >>

\* while (startUid <= maxUidToFetch): the next UID range is requested.
BatchStart ==
    /\ pc = "batch"
    /\ loc.startUid <= loc.currentMaxUid
    /\ loc' = [loc EXCEPT !.endUid = EndUid(loc.startUid, loc.currentMaxUid),
                          !.cursor = loc.startUid - 1]
    /\ pc' = "stream"
    /\ UNCHANGED << serverVars, configVars, syncState, cycle, outcome, client, newMaxUids,
                    statusMessage, retry, queue, yielded, everYielded, atOpen, mbStatus >>

\* The while loop ends: the mailbox is complete.
BatchLoopEnds ==
    /\ pc = "batch"
    /\ ~(loc.startUid <= loc.currentMaxUid)
    /\ EndMailbox("ok", "none", client)
    /\ UNCHANGED << serverVars, configVars, syncState, cycle, newMaxUids, yielded,
                    everYielded, atOpen >>

\* The UIDs the running fetch has still to deliver, ascending.
Pending(path) == {u \in Uids(path) : loc.cursor < u /\ u <= loc.endUid}

\* for await (const msg of this.client.fetch(...)): the next message arrives; it
\* is skipped, or tracked and then skipped for want of envelope or source, or
\* tracked and handed to parseMessage.
StreamNext ==
    /\ pc = "stream"
    /\ Pending(Head(queue)) # {}
    /\ LET path == Head(queue)
           uid == CHOOSE u \in Pending(path) : \A v \in Pending(path) : u <= v
       IN  IF AlreadySynced(LastUid(path), uid)
           THEN /\ loc' = [loc EXCEPT !.cursor = uid]
                /\ pc' = "stream"
                /\ UNCHANGED newMaxUids
           ELSE /\ newMaxUids' = [newMaxUids EXCEPT ![path] = TrackMaxUid(@, uid)]
                /\ IF HasEnvelopeAndSource(KindOf(path, uid))
                   THEN /\ loc' = [loc EXCEPT !.cursor = uid, !.msgUid = uid]
                        /\ pc' = "parse"
                   ELSE /\ loc' = [loc EXCEPT !.cursor = uid]
                        /\ pc' = "stream"
    /\ UNCHANGED << serverVars, configVars, syncState, cycle, outcome, client,
                    statusMessage, retry, queue, yielded, everYielded, atOpen, mbStatus >>

\* A batch loop that does not move to the next batch (C35 does not hold of it).
StreamStalls ==
    /\ pc = "stream"
    /\ Pending(Head(queue)) = {}
    /\ loc' = [loc EXCEPT !.msgUid = 0, !.cursor = 0]
    /\ pc' = "batch"
    /\ UNCHANGED << serverVars, configVars, syncState, cycle, outcome, client, newMaxUids,
                    statusMessage, retry, queue, yielded, everYielded, atOpen, mbStatus >>

\* The fetch has delivered its last message: startUid = endUid + 1.
StreamEnds ==
    /\ pc = "stream"
    /\ Pending(Head(queue)) = {}
    /\ loc' = [loc EXCEPT !.startUid = loc.endUid + 1, !.msgUid = 0]
    /\ pc' = "batch"
    /\ UNCHANGED << serverVars, configVars, syncState, cycle, outcome, client, newMaxUids,
                    statusMessage, retry, queue, yielded, everYielded, atOpen, mbStatus >>

\* The fetch throws (it is not inside withRetry): the catch of the mailbox loop
\* takes the error.
StreamFails(staysUsable) ==
    /\ pc = "stream"
    /\ EndMailbox("failed", "op", ClientAfterOpFailure(client, staysUsable))
    /\ UNCHANGED << serverVars, configVars, syncState, cycle, newMaxUids, yielded,
                    everYielded, atOpen >>

\* yield await this.parseMessage(msg, mailboxPath): the generator is suspended
\* with the message handed to the consumer.
ParseOk ==
    /\ pc = "parse"
    /\ KindOf(Head(queue), loc.msgUid) = "ok"
    /\ yielded' = Append(yielded, << Head(queue), loc.msgUid >>)
    /\ pc' = "suspended"
    /\ UNCHANGED << serverVars, configVars, syncState, cycle, outcome, client, newMaxUids,
                    statusMessage, retry, queue, loc, everYielded, atOpen, mbStatus >>

\* A parse failure that is logged and passed over: the fetch goes on with the
\* next message (C32 does not hold of it).
ParseSkipped ==
    /\ pc = "parse"
    /\ KindOf(Head(queue), loc.msgUid) = "bad"
    /\ pc' = "stream"
    /\ UNCHANGED << serverVars, configVars, syncState, cycle, outcome, client, newMaxUids,
                    statusMessage, retry, queue, loc, yielded, everYielded, atOpen,
                    mbStatus >>

\* parseMessage throws: logged, rethrown, caught by the catch of the mailbox loop.
ParseFails ==
    /\ pc = "parse"
    /\ KindOf(Head(queue), loc.msgUid) = "bad"
    /\ EndMailbox("failed", "parse", client)
    /\ UNCHANGED << serverVars, configVars, syncState, cycle, newMaxUids, yielded,
                    everYielded, atOpen >>

\* The consumer asks for the next message.
Resume ==
    /\ pc = "suspended"
    /\ pc' = "stream"
    /\ UNCHANGED << serverVars, configVars, syncState, cycle, outcome, client, newMaxUids,
                    statusMessage, retry, queue, loc, yielded, everYielded, atOpen,
                    mbStatus >>

\* The consumer stops early (generator.return()): the finally block disconnects.
ConsumerStops ==
    /\ pc = "suspended"
    /\ pc' = "done"
    /\ outcome' = "stopped"
    /\ client' = Disconnect(client)
    /\ mbStatus' = [mbStatus EXCEPT ![Head(queue)] = "stopped"]
    /\ retry' = NoRetry
    /\ loc' = NoLoc
    /\ UNCHANGED << serverVars, configVars, syncState, cycle, newMaxUids, statusMessage,
                    queue, yielded, everYielded, atOpen >>

(***************************************************************************)
(* Specification.                                                          *)
(***************************************************************************)
Next ==
    \/ \E path \in SelectablePaths, gap \in UidGaps, kind \in Kinds : Deliver(path, gap, kind)
    \/ StartCycle
    \/ ConnectReuse
    \/ ConnectOk
    \/ \E err \in {"token", "transport", "op"}, staysUsable \in BOOLEAN :
          \/ AttemptFails(err, staysUsable)
          \/ ListGivesUp(err, staysUsable)
          \/ OpenGivesUp(err, staysUsable)
    \/ BackoffOver
    \/ ListOk
    \/ OpenOkNonEmpty
    \/ OpenOkEmpty
    \/ FetchOneOk
    \/ \E staysUsable \in BOOLEAN : FetchOneFails(staysUsable) \/ StreamFails(staysUsable)
    \/ BatchStart
    \/ BatchLoopEnds
    \/ StreamNext
    \/ StreamEnds
    \/ ParseOk
    \/ ParseFails
    \/ Resume
    \/ ConsumerStops

Spec == Init /\ [][Next]_vars

SpecRetry == InitRetry /\ [][Next]_vars

\* The steps of a cycle in progress: those of fetchEmails, of the operations it
\* awaits and of the timer of the backoff, and those of the consumer of the
\* generator.
CycleStep ==
    \/ ConnectReuse
    \/ ConnectOk
    \/ \E err \in {"token", "transport", "op"}, staysUsable \in BOOLEAN :
          \/ AttemptFails(err, staysUsable)
          \/ ListGivesUp(err, staysUsable)
          \/ OpenGivesUp(err, staysUsable)
    \/ BackoffOver
    \/ ListOk
    \/ OpenOkNonEmpty
    \/ OpenOkEmpty
    \/ FetchOneOk
    \/ \E staysUsable \in BOOLEAN : FetchOneFails(staysUsable) \/ StreamFails(staysUsable)
    \/ BatchStart
    \/ BatchLoopEnds
    \/ StreamNext
    \/ StreamEnds
    \/ ParseOk
    \/ ParseFails
    \/ Resume
    \/ ConsumerStops

\* Every awaited operation settles, the timer of the backoff fires and the
\* consumer goes on with the generator: a cycle in progress is not held up for
\* ever.
SpecLive == Spec /\ WF_vars(CycleStep)

(***************************************************************************)
(* The filter of fetchEmails taken alone, over the listings of two         *)
(* mailboxes with any flags and special-use tag.                           *)
(***************************************************************************)
FilterFlags == {"\\Noselect", "\\Junk", "\\Trash"}
FilterSpecialUses == {NoSpecialUse, "\\Junk", "\\Trash", "\\JUNK", "\\Sent"}
FilterPaths == << "A", "B" >>
Unfiltered == "unfiltered"

\* The listings client.list() may return for the two mailboxes.
FilterListings ==
    {[i \in 1..Len(FilterPaths) |->
         [path |-> FilterPaths[i], flags |-> f[i], specialUse |-> u[i]]] :
       f \in [1..Len(FilterPaths) -> SUBSET FilterFlags],
       u \in [1..Len(FilterPaths) -> FilterSpecialUses]}

InitFilter ==
    /\ InitBase
    /\ useOAuth = FALSE
    /\ instr = FALSE
    /\ capacity = 0
    /\ filterIn \in FilterListings
    /\ filterOut = Unfiltered
    /\ NoOAuthRun

\* const processableMailboxes = mailboxes.filter(...)
ApplyFilter ==
    /\ filterOut = Unfiltered
    /\ filterOut' = ProcessableMailboxes(filterIn, allInclusiveArchive)
    /\ UNCHANGED << mbox, allInclusiveArchive, useOAuth, syncState, cycle, outcome, client,
                    newMaxUids, statusMessage, pc, retry, queue, loc, instr, capacity,
                    yielded, everYielded, atOpen, mbStatus, firstState, quiet, rerun,
                    filterIn, oauthVars >>

NextFilter == ApplyFilter

SpecFilter == InitFilter /\ [][NextFilter]_vars

(***************************************************************************)
(* The OAuth code: table oauth_tokens, OAuthService.refreshToken and       *)
(* getToken, ImapConnector.getOAuthAccessToken and the OAuth branch of     *)
(* connect() under withRetry.  Two callers run concurrently: "sync", a     *)
(* connector opening its connection, and "api", the HTTP handlers.         *)
(***************************************************************************)
Callers == {"sync", "api"}

\* Plaintext tokens: what the provider issues.  NullToken is null.
AccessToken(n) == [kind |-> "access", n |-> n]
RefreshToken(n) == [kind |-> "refresh", n |-> n]
NullToken == [kind |-> "null", n |-> 0]

\* CryptoService.encrypt / decrypt: the ciphertext is not the plaintext.
Encrypt(plain) == [cipher |-> plain]
Decrypt(ciphertext) == ciphertext.cipher

\* A null column (refresh_token, expires_at) and the absence of a row or value.
NullColumn == [null |-> TRUE]
NoExpiry == Undefined
NoRow == [id |-> "none"]
NoResponse == [access_token |-> NullToken]

\* The answer of a request: the error or "none", the email of a success, the
\* expiry of a refreshed credential, the tokens listed.
NoResult == [error |-> "none", email |-> "none", expiresAt |-> NoExpiry, tokens |-> {}]

\* A request that has been answered: whose it was, what it was, the state it
\* presented and the answer.
Answered(user, op, state, result) ==
    [user |-> user, op |-> op, state |-> state, result |-> result]

\* The request answered last after this answer: runs that do not record the
\* answers keep none.
Record(answer) == IF instr THEN answer ELSE reply

\* The auth option of an ImapFlow client: the stored password, or a bearer
\* token; '' is the placeholder token of createClient.  NoAuth: no connection.
PasswordAuth == [user |-> "username", pass |-> "password"]
BearerAuth(accessToken) == [user |-> "username", accessToken |-> accessToken]
NoAuth == [user |-> "none"]

\* createClient(): the auth of the client it builds (an oauthTokenId is
\* configured whenever useOAuth is).
CreateClientAuth(oauth) ==
    IF oauth THEN BearerAuth([kind |-> "empty", n |-> 0]) ELSE PasswordAuth

\* A connect() that opens the client createClient() builds, whatever the
\* configuration (C33 does not hold of it).
PlaceholderAuth(oauth, accessToken) == CreateClientAuth(oauth)

\* connect(): the auth of the client it opens: a new client with the access
\* token when useOAuth, the client of createClient() otherwise.
ConnectAuth(oauth, accessToken) ==
    IF oauth THEN BearerAuth(accessToken) ELSE CreateClientAuth(oauth)

\* The one credential the callers work on.
TokenId == "t1"
UserId == "u1"
Email == "user@example.com"
Provider == "microsoft"

\* tokenResponse.scope: the scopes the provider granted.
Scope == "IMAP.AccessAsUser.All offline_access"

\* A row of oauth_tokens.
Row(accessToken, refreshToken, expiresAt, updatedAt) ==
    [id |-> TokenId, userId |-> UserId, provider |-> Provider, email |-> Email,
     accessToken |-> accessToken, refreshToken |-> refreshToken,
     expiresAt |-> expiresAt, scope |-> Scope, createdAt |-> 0, updatedAt |-> updatedAt]

\* db.select().from(oauthTokens).where(eq(oauthTokens.id, id)).limit(1)
SelectById(id) ==
    IF \E r \in tokens : r.id = id THEN CHOOSE r \in tokens : r.id = id ELSE NoRow

\* db.select()...where(and(eq(userId), eq(email), eq(provider))).limit(1)
SelectByOwner(userId, email, provider) ==
    IF \E r \in tokens : r.userId = userId /\ r.email = email /\ r.provider = provider
    THEN CHOOSE r \in tokens : r.userId = userId /\ r.email = email /\ r.provider = provider
    ELSE NoRow

\* A test of expiry that never finds a token expired (C16 does not hold of it).
NeverExpired(row, time) == FALSE

\* token.expiresAt && token.expiresAt < new Date()
Expired(row, time) == row.expiresAt # NoExpiry /\ row.expiresAt < time

\* const expiresAt = new Date(Date.now() + response.data.expires_in * 1000)
ExpiresAt(time, expiresIn) == time + expiresIn

\* The .set({...}) of refreshToken's update: token is the row as refreshToken
\* selected it, response the provider's answer.
UpdatedRow(current, token, response, expiresAt, time) ==
    [current EXCEPT
        !.accessToken = Encrypt(response.access_token),
        !.refreshToken = IF response.refresh_token # NullToken
                         THEN Encrypt(response.refresh_token)
                         ELSE token.refreshToken,
        !.expiresAt = expiresAt,
        !.updatedAt = time]

\* A caller with no call in progress.  Besides the locals of the call (op, pc,
\* attempt, row, response, expiresAt, result, error) the frame records what the
\* call has done: refreshed (refreshToken returned to it), refreshCalls,
\* refreshFails, requests (posted to the token endpoint), wrote (it updated the
\* store), seen and seenAt (the row token resolution selected, and when),
\* invoked (this token resolution called refreshToken).
IdleFrame ==
    [op |-> "none", pc |-> "idle", attempt |-> 0, row |-> NoRow, response |-> NoResponse,
     expiresAt |-> NoExpiry, result |-> NoRow, error |-> "none", refreshed |-> FALSE,
     refreshCalls |-> 0, refreshFails |-> 0, requests |-> 0, wrote |-> FALSE,
     seen |-> NoRow, seenAt |-> 0, invoked |-> FALSE, auth |-> NoAuth]

\* The entry of a call of operation op.
CallFrame(op) ==
    [IdleFrame EXCEPT !.op = op,
                      !.pc = IF op = "refreshToken" THEN "refreshSelect" ELSE "select",
                      !.refreshCalls = IF op = "refreshToken" THEN 1 ELSE 0]

\* What the caller of refreshToken gets when it throws err: the error itself
\* (a direct call), or null from the catch of getOAuthAccessToken / getToken.
RefreshThrows(f, err) ==
    LET g == [f EXCEPT !.pc = "returned", !.refreshFails = @ + 1]
    IN  CASE f.op = "refreshToken"        -> [g EXCEPT !.error = err, !.result = NoRow]
          [] f.op = "getOAuthAccessToken" -> [g EXCEPT !.result = NullToken]
          [] OTHER                        -> [g EXCEPT !.result = NoRow]

\* What the caller of refreshToken gets when it returns updated (NoRow: the
\* update matched no row and returning() is empty): getOAuthAccessToken decrypts
\* its access token, which throws on undefined and ends in the catch.
RefreshReturns(f, updated) ==
    LET g == [f EXCEPT !.pc = "returned", !.refreshed = TRUE]
    IN  IF f.op = "getOAuthAccessToken"
        THEN [g EXCEPT !.result = IF updated = NoRow THEN NullToken
                                  ELSE Decrypt(updated.accessToken)]
        ELSE [g EXCEPT !.result = updated]

\* The stores a run may start from: no credential, or one with or without a
\* refresh token whose expiry is absent, in the past or in the future.
InitialStores ==
    {{}} \cup
    {{Row(Encrypt(AccessToken(0)), refreshToken, expiresAt, 0)} :
        refreshToken \in {NullColumn, Encrypt(RefreshToken(0))},
        expiresAt \in {NoExpiry, 0, 2}}

\* Lifetimes (expires_in) the provider grants, in ticks of the clock.
ExpiresIn == {1, 2}

InitOAuth ==
    /\ InitBase
    /\ allInclusiveArchive = FALSE
    /\ syncState = EmptyMap
    /\ useOAuth = TRUE
    /\ instr = FALSE
    /\ capacity = 0
    /\ filterIn = <<>>
    /\ filterOut = <<>>
    /\ tokens \in InitialStores
    /\ now = 1
    /\ issued = 0
    /\ frame = [c \in Callers |-> IdleFrame]
    /\ NoFlowRun

engineVars == << mbox, allInclusiveArchive, useOAuth, syncState, cycle, outcome, client,
                 newMaxUids, statusMessage, pc, retry, queue, loc, instr, capacity,
                 yielded, everYielded, atOpen, mbStatus, firstState, quiet, rerun,
                 filterIn, filterOut >>

\* Time passes.
Tick ==
    /\ now < MaxTime
    /\ now' = now + 1
    /\ UNCHANGED << engineVars, flowVars, tokens, issued, frame >>

\* withRetry enters its loop and connect() calls getOAuthAccessToken.
SyncConnects ==
    /\ frame["sync"].pc = "idle"
    /\ frame' = [frame EXCEPT !["sync"] = [CallFrame("getOAuthAccessToken") EXCEPT !.attempt = 1]]
    /\ UNCHANGED << engineVars, flowVars, tokens, now, issued >>

\* A handler calls OAuthService.refreshToken(tokenId) or getToken(...).
ApiCalls(op) ==
    /\ frame["api"].pc = "idle"
    /\ frame' = [frame EXCEPT !["api"] = CallFrame(op)]
    /\ UNCHANGED << engineVars, flowVars, tokens, now, issued >>

\* The handler has its answer: the controller's refreshToken answers with
\* refreshedToken.expiresAt, or with error.message from its catch (the message
\* of the TypeError when refreshToken returned undefined).
ApiReturns ==
    /\ frame["api"].pc = "returned"
    /\ frame' = [frame EXCEPT !["api"] = IdleFrame]
    /\ \E user \in {UserId, "u2"} :
          reply' = Record(Answered(user, frame["api"].op, "none",
              IF frame["api"].error # "none"
              THEN [NoResult EXCEPT !.error = frame["api"].error]
              ELSE IF frame["api"].result = NoRow
                   THEN [NoResult EXCEPT !.error = "Cannot read properties of undefined"]
                   ELSE [NoResult EXCEPT !.expiresAt = frame["api"].result.expiresAt]))
    /\ UNCHANGED << engineVars, tokens, now, issued, pkceSessionStore, nextSweep, flows, req >>

\* OAuthService.deleteToken(tokenId)
DeleteToken ==
    /\ frame["api"].pc = "idle"
    /\ tokens # {}
    /\ tokens' = {r \in tokens : r.id # TokenId}
    /\ \E user \in {UserId, "u2"} :
          reply' = Record(Answered(user, "deleteToken", "none", NoResult))
    /\ UNCHANGED << engineVars, now, issued, frame, pkceSessionStore, nextSweep, flows, req >>

\* getOAuthAccessToken / getToken: the row is selected; a missing row gives
\* null, an expired one goes to refreshToken, any other is returned.
SelectToken(c) ==
    /\ frame[c].pc = "select"
    /\ LET f == frame[c]
           row == IF f.op = "getToken" THEN SelectByOwner(UserId, Email, Provider)
                  ELSE SelectById(TokenId)
       IN  frame' = [frame EXCEPT ![c] =
              IF row = NoRow
              THEN [f EXCEPT !.pc = "returned", !.seenAt = now,
                             !.result = IF f.op = "getToken" THEN NoRow ELSE NullToken]
              ELSE IF Expired(row, now)
              THEN [f EXCEPT !.pc = "refreshSelect", !.row = row, !.seen = row,
                             !.seenAt = now, !.invoked = TRUE, !.refreshCalls = @ + 1]
              ELSE [f EXCEPT !.pc = "returned", !.row = row, !.seen = row, !.seenAt = now,
                             !.result = IF f.op = "getToken" THEN row
                                        ELSE Decrypt(row.accessToken)]]
    /\ UNCHANGED << engineVars, flowVars, tokens, now, issued >>

\* A refreshToken that does not test for a stored refresh token (C18 does not
\* hold of it).
RefreshSelectsUnchecked(c) ==
    /\ frame[c].pc = "refreshSelect"
    /\ LET f == frame[c]
           token == SelectById(TokenId)
       IN  frame' = [frame EXCEPT ![c] =
              IF token = NoRow THEN RefreshThrows(f, "OAuth token not found")
              ELSE [f EXCEPT !.pc = "post", !.row = token, !.requests = @ + 1]]
    /\ UNCHANGED << engineVars, flowVars, tokens, now, issued >>

\* refreshToken: the row is selected; without row or refresh token it throws,
\* else the refresh token is decrypted and the request is posted.
RefreshSelects(c) ==
    /\ frame[c].pc = "refreshSelect"
    /\ LET f == frame[c]
           token == SelectById(TokenId)
       IN  frame' = [frame EXCEPT ![c] =
              IF token = NoRow THEN RefreshThrows(f, "OAuth token not found")
              ELSE IF token.refreshToken = NullColumn
              THEN RefreshThrows(f, "No refresh token available")
              ELSE [f EXCEPT !.pc = "post", !.row = token, !.requests = @ + 1]]
    /\ UNCHANGED << engineVars, flowVars, tokens, now, issued >>

\* A refreshToken that drops the stored refresh token when the provider refuses
\* it (C17 does not hold of it).
RefreshRejectedWipes(c) ==
    /\ frame[c].pc = "post"
    /\ frame' = [frame EXCEPT ![c] = RefreshThrows(@, "Failed to refresh OAuth token")]
    /\ tokens' = {[r EXCEPT !.refreshToken = NullColumn] : r \in tokens}
    /\ UNCHANGED << engineVars, flowVars, now, issued >>

\* refreshToken: axios.post rejects (the provider refuses the grant, or the
\* request fails): the catch throws 'Failed to refresh OAuth token'.
RefreshRejected(c) ==
    /\ frame[c].pc = "post"
    /\ frame' = [frame EXCEPT ![c] = RefreshThrows(@, "Failed to refresh OAuth token")]
    /\ UNCHANGED << engineVars, flowVars, tokens, now, issued >>

\* refreshToken: the provider answers with a new access token, a new refresh
\* token if it rotates, and expires_in; expiresAt is computed.
RefreshGranted(c, rotates, expiresIn) ==
    /\ frame[c].pc = "post"
    /\ issued < MaxIssued
    /\ issued' = issued + 1
    /\ frame' = [frame EXCEPT ![c] =
          [@ EXCEPT !.pc = "update",
                    !.response = [access_token |-> AccessToken(issued + 1),
                                  refresh_token |-> IF rotates THEN RefreshToken(issued + 1)
                                                    ELSE NullToken,
                                  expires_in |-> expiresIn],
                    !.expiresAt = ExpiresAt(now, expiresIn)]]
    /\ UNCHANGED << engineVars, flowVars, tokens, now >>

\* refreshToken: db.update(oauthTokens).set({...}).where(eq(id)).returning(),
\* and the return of the updated row.
RefreshUpdates(c) ==
    /\ frame[c].pc = "update"
    /\ LET f == frame[c]
           current == SelectById(TokenId)
           updated == IF current = NoRow THEN NoRow
                      ELSE UpdatedRow(current, f.row, f.response, f.expiresAt, now)
       IN  /\ tokens' = IF current = NoRow THEN tokens
                        ELSE (tokens \ {current}) \cup {updated}
           /\ frame' = [frame EXCEPT ![c] =
                 RefreshReturns([f EXCEPT !.wrote = current # NoRow], updated)]
    /\ UNCHANGED << engineVars, flowVars, now, issued >>

\* connect(): a client is created with the access token and client.connect()
\* succeeds; withRetry goes on to the action.
SyncConnected ==
    /\ \/ frame["sync"].pc = "returned" /\ frame["sync"].result # NullToken
       \/ frame["sync"].pc = "connecting"
    /\ frame' = [frame EXCEPT !["sync"] =
          [@ EXCEPT !.pc = "connected", !.auth = ConnectAuth(useOAuth, frame["sync"].result)]]
    /\ UNCHANGED << engineVars, flowVars, tokens, now, issued >>

\* connect() throws: no access token ('Failed to obtain OAuth access token') or
\* client.connect() refused; before the last attempt withRetry waits and, at
\* the next attempt, connect() calls getOAuthAccessToken again.
SyncAttemptFails ==
    /\ frame["sync"].pc \in {"returned", "connecting"}
    /\ ~RetriesExhausted(frame["sync"].attempt)
    /\ LoopGoesOn(NextAttempt(frame["sync"].attempt))
    /\ frame' = [frame EXCEPT !["sync"] =
          [@ EXCEPT !.pc = IF useOAuth THEN "select" ELSE "connecting",
                    !.attempt = NextAttempt(@), !.row = NoRow,
                    !.response = NoResponse, !.expiresAt = NoExpiry, !.result = NoRow,
                    !.refreshed = FALSE, !.wrote = FALSE, !.seen = NoRow, !.seenAt = 0,
                    !.invoked = FALSE]]
    /\ UNCHANGED << engineVars, flowVars, tokens, now, issued >>

\* connect() throws on the last attempt: withRetry throws the error.
SyncGivesUp ==
    /\ frame["sync"].pc \in {"returned", "connecting"}
    /\ RetriesExhausted(frame["sync"].attempt)
    /\ frame' = [frame EXCEPT !["sync"].pc = "gaveUp"]
    /\ UNCHANGED << engineVars, flowVars, tokens, now, issued >>

NextOAuth ==
    \/ Tick
    \/ SyncConnects
    \/ \E op \in {"refreshToken", "getToken"} : ApiCalls(op)
    \/ ApiReturns
    \/ DeleteToken
    \/ \E c \in Callers :
          \/ SelectToken(c)
          \/ RefreshSelects(c)
          \/ RefreshRejected(c)
          \/ \E rotates \in BOOLEAN, expiresIn \in ExpiresIn : RefreshGranted(c, rotates, expiresIn)
          \/ RefreshUpdates(c)
    \/ SyncConnected
    \/ SyncAttemptFails
    \/ SyncGivesUp

SpecOAuth == InitOAuth /\ [][NextOAuth]_vars

(***************************************************************************)
(* connect() taken alone, with either configuration of the connector: the  *)
(* attempts of withRetry, the token resolution of each and the client that *)
(* is opened, while time passes and the credential may be deleted.         *)
(***************************************************************************)
InitConnect ==
    /\ InitBase
    /\ allInclusiveArchive = FALSE
    /\ syncState = EmptyMap
    /\ useOAuth \in BOOLEAN
    /\ instr = FALSE
    /\ capacity = 0
    /\ filterIn = <<>>
    /\ filterOut = <<>>
    /\ tokens \in InitialStores
    /\ now = 1
    /\ issued = 0
    /\ frame = [c \in Callers |-> IdleFrame]
    /\ NoFlowRun

\* withRetry enters its loop and connect(), the client not usable, takes the
\* branch of its configuration: getOAuthAccessToken, or createClient().
SyncCallsConnect ==
    /\ frame["sync"].pc = "idle"
    /\ frame' = [frame EXCEPT !["sync"] =
          IF useOAuth THEN [CallFrame("getOAuthAccessToken") EXCEPT !.attempt = 1]
          ELSE [IdleFrame EXCEPT !.op = "connect", !.pc = "connecting", !.attempt = 1]]
    /\ UNCHANGED << engineVars, flowVars, tokens, now, issued >>

NextConnect ==
    \/ Tick
    \/ SyncCallsConnect
    \/ DeleteToken
    \/ SelectToken("sync")
    \/ RefreshSelects("sync")
    \/ RefreshRejected("sync")
    \/ \E rotates \in BOOLEAN, expiresIn \in ExpiresIn : RefreshGranted("sync", rotates, expiresIn)
    \/ RefreshUpdates("sync")
    \/ SyncConnected
    \/ SyncAttemptFails
    \/ SyncGivesUp

SpecConnect == InitConnect /\ [][NextConnect]_vars

(***************************************************************************)
(* The authorization flow: OAuthController.startOutlookAuth,               *)
(* handleOutlookCallback and listTokens over the Map pkceSessionStore and  *)
(* its sweep, with OAuthService.generatePKCE, exchangeCodeForToken,        *)
(* storeToken and listUserTokens.  The API caller's refreshToken and       *)
(* deleteToken run next to it on the same table.                           *)
(***************************************************************************)
\* req.user of the requests, the values generateState draws, the ids the
\* table gives its rows, and req.user.email.
Users == {UserId, "u2"}
States == {"s1", "s2"}
TokenIds == {TokenId, "t2"}
EmailOf(user) == IF user = UserId THEN Email ELSE "other@example.com"

\* The sweep's age limit and the period of its timer, both 10 * 60 * 1000 ms,
\* in ticks of the clock (a tick is 200 s).
Ttl == 3
SweepInterval == 3

\* crypto.randomBytes(32).toString('base64url'): the n-th verifier drawn.
Verifier(n) == [verifier |-> n]

\* crypto.createHash('sha256').update(codeVerifier).digest('base64url')
S256(codeVerifier) == [sha256 |-> codeVerifier]

\* A generatePKCE whose challenge is the verifier itself (C26 does not hold of
\* it).
GeneratePlain(n) ==
    [codeVerifier |-> Verifier(n), codeChallenge |-> Verifier(n),
     codeChallengeMethod |-> "S256"]

\* OAuthService.generatePKCE, drawing the n-th verifier.
GeneratePKCE(n) ==
    [codeVerifier |-> Verifier(n), codeChallenge |-> S256(Verifier(n)),
     codeChallengeMethod |-> "S256"]

\* OAuthService.buildAuthorizationUrl: the parameters that vary.
BuildAuthorizationUrl(state, codeChallenge) ==
    [response_type |-> "code", state |-> state, code_challenge |-> codeChallenge,
     code_challenge_method |-> "S256"]

\* The value startOutlookAuth puts into the Map.
PKCESession(codeVerifier, state, timestamp) ==
    [codeVerifier |-> codeVerifier, state |-> state, timestamp |-> timestamp]

\* A set that drops every other key of the Map (C25 does not hold of it).
MapReset(m, k, v) == [x \in {k} |-> v]

\* A delete that leaves the Map as it is (C23 does not hold of it).
MapKeep(m, k) == m

\* Map.set
MapSet(m, k, v) == [x \in DOMAIN m \cup {k} |-> IF x = k THEN v ELSE m[x]]

\* Map.delete
MapDelete(m, k) == [x \in DOMAIN m \ {k} |-> m[x]]

\* An age test that finds no session too old (C24 does not hold of it).
NeverStale(session, time) == FALSE

\* An age test that also removes a session whose age is exactly the limit (C22
\* does not hold of it).
ExpiredAtLimit(session, time) == time - session.timestamp >= Ttl

\* now - session.timestamp > 10 * 60 * 1000
SessionExpired(session, time) == time - session.timestamp > Ttl

\* The start request whose verifier a session holds.
FlowOf(session) == session.codeVerifier.verifier

\* The provider accepts an authorization code with a verifier: the code is one
\* it issued for an authorization URL, and the verifier hashes to the
\* challenge of that URL.
ProviderAccepts(code, codeVerifier) ==
    /\ code \in 1..Len(flows)
    /\ flows[code].authorizationUrl.code_challenge = S256(codeVerifier)

\* A user with no callback in progress, and the locals of a callback.
IdleRequest ==
    [pc |-> "idle", state |-> "none", code |-> 0, codeVerifier |-> Verifier(0),
     tokenResponse |-> NoResponse]

\* expires_in of the tokens the provider grants for an authorization code.
GrantLifetimes == {2}

\* The id of a new row: id uuid defaultRandom(), an id no row has.
NewId(rows) == IF \E r \in rows : r.id = TokenId THEN "t2" ELSE TokenId

\* A storeToken that writes the tokens as the provider sent them (C29 does not
\* hold of it).
StoredPlain(id, userId, provider, email, tokenResponse, time) ==
    [id |-> id, userId |-> userId, provider |-> provider, email |-> email,
     accessToken |-> tokenResponse.access_token,
     refreshToken |-> tokenResponse.refresh_token,
     expiresAt |-> ExpiresAt(time, tokenResponse.expires_in),
     scope |-> tokenResponse.scope, createdAt |-> time, updatedAt |-> time]

\* The .values({...}) of storeToken's insert.
StoredRow(id, userId, provider, email, tokenResponse, time) ==
    [id |-> id, userId |-> userId, provider |-> provider, email |-> email,
     accessToken |-> Encrypt(tokenResponse.access_token),
     refreshToken |-> IF tokenResponse.refresh_token # NullToken
                      THEN Encrypt(tokenResponse.refresh_token)
                      ELSE NullColumn,
     expiresAt |-> ExpiresAt(time, tokenResponse.expires_in),
     scope |-> tokenResponse.scope, createdAt |-> time, updatedAt |-> time]

\* OAuthService.listUserTokens
ListUserTokens(rows, userId) == {r \in rows : r.userId = userId}

\* A listing that passes the rows on as they are selected (C30 does not hold
\* of it).
WholeRow(token) == token

\* listTokens: tokens.map((token) => ({ id, provider, email, ... }))
SanitizedToken(token) ==
    [id |-> token.id, provider |-> token.provider, email |-> token.email,
     expiresAt |-> token.expiresAt, scope |-> token.scope,
     createdAt |-> token.createdAt, updatedAt |-> token.updatedAt]

\* The query strings of a callback that does not reach the Map: the provider
\* reports an error, or code or state is missing.
BadQueries == {"access_denied", "Invalid callback parameters"}

\* No request has reached the controller; the timer of the sweep is set.
InitFlow ==
    /\ InitBase
    /\ allInclusiveArchive = FALSE
    /\ syncState = EmptyMap
    /\ useOAuth = TRUE
    /\ capacity = 0
    /\ filterIn = <<>>
    /\ filterOut = <<>>
    /\ tokens = {}
    /\ now = 0
    /\ issued = 0
    /\ frame = [c \in Callers |-> IdleFrame]
    /\ pkceSessionStore = EmptyMap
    /\ nextSweep = SweepInterval
    /\ flows = <<>>
    /\ req = [u \in Users |-> IdleRequest]
    /\ reply = Answered("none", "none", "none", NoResult)

\* Runs in which time passes, which keep no answers.
InitPkce == InitFlow /\ instr = FALSE

\* Runs within one tick of the clock, which record the answers.
InitStore == InitFlow /\ instr = TRUE

\* Time passes; the timer of the sweep fires when it is due.
ClockTick ==
    /\ now < MaxClock
    /\ now < nextSweep
    /\ now' = now + 1
    /\ UNCHANGED << engineVars, tokens, issued, frame, pkceSessionStore, nextSweep, flows,
                    req, reply >>

\* The setInterval callback: every session older than the limit is deleted.
Sweep ==
    /\ now >= nextSweep
    /\ nextSweep' = nextSweep + SweepInterval
    /\ LET gone == {k \in DOMAIN pkceSessionStore : SessionExpired(pkceSessionStore[k], now)}
       IN  /\ pkceSessionStore' = [k \in DOMAIN pkceSessionStore \ gone |-> pkceSessionStore[k]]
           /\ flows' = [n \in DOMAIN flows |->
                 IF \E k \in gone : FlowOf(pkceSessionStore[k]) = n
                 THEN [flows[n] EXCEPT !.swept = TRUE] ELSE flows[n]]
    /\ UNCHANGED << engineVars, tokens, now, issued, frame, req, reply >>

\* startOutlookAuth of an authenticated user: generateState draws state, the
\* session is put into the Map and the authorization URL is returned.
StartOutlookAuth(user, state) ==
    /\ Len(flows) < MaxFlows
    /\ LET pkce == GeneratePKCE(Len(flows) + 1)
       IN  /\ pkceSessionStore' =
                 MapSet(pkceSessionStore, state, PKCESession(pkce.codeVerifier, state, now))
           /\ flows' = Append(flows,
                 [user |-> user, codeVerifier |-> pkce.codeVerifier,
                  authorizationUrl |-> BuildAuthorizationUrl(state, pkce.codeChallenge),
                  handed |-> 0, swept |-> FALSE])
    /\ reply' = Record(Answered(user, "start", state, NoResult))
    /\ UNCHANGED << engineVars, tokens, now, issued, frame, nextSweep, req >>

\* handleOutlookCallback: the query carries an error, or lacks code or state.
CallbackBadQuery(user, error) ==
    /\ req[user].pc = "idle"
    /\ reply' = Record(Answered(user, "callback", "none", [NoResult EXCEPT !.error = error]))
    /\ UNCHANGED << engineVars, tokens, now, issued, frame, pkceSessionStore, nextSweep, flows,
                    req >>

\* handleOutlookCallback: the Map has no session for the state.
CallbackUnknownState(user, code, state) ==
    /\ req[user].pc = "idle"
    /\ state \notin DOMAIN pkceSessionStore
    /\ reply' = Record(Answered(user, "callback", state,
                         [NoResult EXCEPT !.error = "Invalid or expired state parameter"]))
    /\ UNCHANGED << engineVars, tokens, now, issued, frame, pkceSessionStore, nextSweep, flows,
                    req >>

\* handleOutlookCallback: the session is got and deleted, and the code is sent
\* to the token endpoint with the session's verifier.
CallbackTakes(user, code, state) ==
    /\ req[user].pc = "idle"
    /\ state \in DOMAIN pkceSessionStore
    /\ LET pkceSession == pkceSessionStore[state]
       IN  /\ pkceSessionStore' = MapDelete(pkceSessionStore, state)
           /\ flows' = [flows EXCEPT ![FlowOf(pkceSession)].handed = @ + 1]
           /\ req' = [req EXCEPT ![user] =
                 [IdleRequest EXCEPT !.pc = "exchange", !.state = state, !.code = code,
                                     !.codeVerifier = pkceSession.codeVerifier]]
    /\ UNCHANGED << engineVars, tokens, now, issued, frame, nextSweep, reply >>

\* exchangeCodeForToken: the provider answers with the tokens.
ExchangeGranted(user, rotates, expiresIn) ==
    /\ req[user].pc = "exchange"
    /\ ProviderAccepts(req[user].code, req[user].codeVerifier)
    /\ issued < MaxIssued
    /\ issued' = issued + 1
    /\ req' = [req EXCEPT ![user] =
          [@ EXCEPT !.pc = "store",
                    !.tokenResponse = [access_token |-> AccessToken(issued + 1),
                                       refresh_token |-> IF rotates THEN RefreshToken(issued + 1)
                                                         ELSE NullToken,
                                       expires_in |-> expiresIn, scope |-> Scope]]]
    /\ UNCHANGED << engineVars, tokens, now, frame, pkceSessionStore, nextSweep, flows, reply >>

\* exchangeCodeForToken throws (the provider refuses, or the request fails):
\* the catch of the handler answers with the error.
ExchangeFails(user) ==
    /\ req[user].pc = "exchange"
    /\ req' = [req EXCEPT ![user] = IdleRequest]
    /\ reply' = Record(Answered(user, "callback", req[user].state,
          [NoResult EXCEPT !.error = "Failed to exchange authorization code for token"]))
    /\ UNCHANGED << engineVars, tokens, now, issued, frame, pkceSessionStore, nextSweep, flows >>

\* storeToken(req.user.id, 'microsoft', req.user.email, tokenResponse) and the
\* answer of the handler.
StoreToken(user) ==
    /\ req[user].pc = "store"
    /\ \E id \in TokenIds : \A r \in tokens : r.id # id
    /\ tokens' = tokens \cup
          {StoredRow(NewId(tokens), user, Provider, EmailOf(user), req[user].tokenResponse, now)}
    /\ req' = [req EXCEPT ![user] = IdleRequest]
    /\ reply' = Record(Answered(user, "callback", req[user].state,
                         [NoResult EXCEPT !.email = EmailOf(user)]))
    /\ UNCHANGED << engineVars, now, issued, frame, pkceSessionStore, nextSweep, flows >>

\* listTokens of an authenticated user.
ListTokens(user) ==
    /\ reply' = Record(Answered(user, "listTokens", "none",
          [NoResult EXCEPT !.tokens = {SanitizedToken(t) : t \in ListUserTokens(tokens, user)}]))
    /\ UNCHANGED << engineVars, tokens, now, issued, frame, pkceSessionStore, nextSweep, flows,
                    req >>

\* The steps of the authorization flow proper.
FlowStep ==
    \E user \in Users :
        \/ \E state \in States : StartOutlookAuth(user, state)
        \/ \E error \in BadQueries : CallbackBadQuery(user, error)
        \/ \E code \in 0..Len(flows), state \in States :
              \/ CallbackUnknownState(user, code, state)
              \/ CallbackTakes(user, code, state)
        \/ \E rotates \in BOOLEAN, expiresIn \in GrantLifetimes :
              ExchangeGranted(user, rotates, expiresIn)
        \/ ExchangeFails(user)
        \/ StoreToken(user)

\* The authorization flow as time passes and the sweep runs.
NextPkce ==
    \/ ClockTick
    \/ Sweep
    \/ FlowStep

SpecPkce == InitPkce /\ [][NextPkce]_vars

\* The sweep's timer and the clock are not held up for ever.
SpecPkceLive == SpecPkce /\ WF_vars(ClockTick) /\ WF_vars(Sweep)

\* The authorization flow next to the other requests that work on the table,
\* within one tick of the clock.
NextStore ==
    \/ FlowStep
    \/ \E user \in Users : ListTokens(user)
    \/ ApiCalls("refreshToken")
    \/ ApiReturns
    \/ DeleteToken
    \/ RefreshSelects("api")
    \/ RefreshRejected("api")
    \/ \E rotates \in BOOLEAN, expiresIn \in ExpiresIn : RefreshGranted("api", rotates, expiresIn)
    \/ RefreshUpdates("api")

SpecStore == InitStore /\ [][NextStore]_vars

(***************************************************************************)
(* The handlers of OAuthController on requests without req.user, next to   *)
(* the authorization flow of the users.                                    *)
(***************************************************************************)
\* req.user of a request that carries no identity.
NoUser == "anonymous"

\* startOutlookAuth, refreshToken (a tokenId given), listTokens and deleteToken
\* without req.user: if (!req.user?.id) return res.status(401)...
RefusedWithoutUser(op) ==
    /\ reply' = Record(Answered(NoUser, op, "none", [NoResult EXCEPT !.error = "Unauthorized"]))
    /\ UNCHANGED << engineVars, tokens, now, issued, frame, pkceSessionStore, nextSweep, flows,
                    req >>

\* handleOutlookCallback without req.user, in the order of its tests: the
\* query carries an error or lacks code or state; the Map has no session for
\* the state; else the session is deleted and then req.user is tested.
CallbackWithoutUser(error, state) ==
    /\ IF error # "none"
       THEN /\ reply' = Record(Answered(NoUser, "callback", "none",
                                [NoResult EXCEPT !.error = error]))
            /\ UNCHANGED pkceSessionStore
       ELSE IF state \notin DOMAIN pkceSessionStore
       THEN /\ reply' = Record(Answered(NoUser, "callback", state,
                                [NoResult EXCEPT !.error = "Invalid or expired state parameter"]))
            /\ UNCHANGED pkceSessionStore
       ELSE /\ pkceSessionStore' = MapDelete(pkceSessionStore, state)
            /\ reply' = Record(Answered(NoUser, "callback", state,
                                [NoResult EXCEPT !.error = "Unauthorized"]))
    /\ UNCHANGED << engineVars, tokens, now, issued, frame, nextSweep, flows, req >>

\* The requests of the users and the requests without identity.
NextGuest ==
    \/ FlowStep
    \/ \E op \in {"start", "refreshToken", "listTokens", "deleteToken"} : RefusedWithoutUser(op)
    \/ \E error \in BadQueries \cup {"none"}, state \in States : CallbackWithoutUser(error, state)

SpecGuest == InitStore /\ [][NextGuest]_vars

(***************************************************************************)
(* What the claims speak of.                                               *)
(***************************************************************************)
\* The UIDs yielded for a mailbox in this cycle, in the order of the yields.
YieldedUids(path) ==
    LET mine == SelectSeq(yielded, LAMBDA y : y[1] = path)
    IN  [i \in 1..Len(mine) |-> mine[i][2]]

\* The UIDs u of the messages present when the mailbox was opened with
\* lastUid < u (u <= the highest UID present then holds of all of them).
NewAtOpen(path) == {u \in atOpen[path] : u > OrZero(LastUid(path))}

\* The highest UID present when the mailbox was opened, 0 for an empty mailbox.
HighestAtOpen(path) == IF atOpen[path] = {} THEN 0 ELSE Max(atOpen[path])

\* The UID of the last message yielded for the mailbox in this cycle, the input
\* lastUid (0 when absent) if none has been.
LastYielded(path) ==
    IF YieldedUids(path) = <<>> THEN OrZero(LastUid(path))
    ELSE YieldedUids(path)[Len(YieldedUids(path))]

\* The mailbox loop has finished with the mailbox in this cycle.
Processed(path) == mbStatus[path] \in {"ok", "failed"}

C2_PositionNeverPastLastYielded ==
    pc \in {"suspended", "done"} =>
        \A path \in DOMAIN newMaxUids : newMaxUids[path] <= LastYielded(path)

(***************************************************************************)
(* C3                                                                      *)
(***************************************************************************)
\* C3: with each cycle given the position the cycle before returned, no UID of a
\* mailbox is yielded in two cycles, and when a cycle has ended every message
\* with a UID at or below the position returned for its mailbox (and above the
\* position the first cycle was given) has been yielded in some cycle.
C3_NoDuplicateNoLoss ==
    /\ RangeOf(yielded) \cap everYielded = {}
    /\ pc = "done" =>
          \A path \in DOMAIN newMaxUids : \A u \in Uids(path) :
              (u <= newMaxUids[path]
               /\ u > (IF path \in DOMAIN firstState THEN firstState[path] ELSE 0))
              => << path, u >> \in everYielded \cup RangeOf(yielded)

C5_TrackedUpToHighestObserved ==
    \A path \in DOMAIN newMaxUids \cap DOMAIN atOpen :
        /\ OrZero(LastUid(path)) <= newMaxUids[path]
        /\ newMaxUids[path] <= HighestAtOpen(path)

\* The bounds of C5 amended: currentMax is the larger of lastUid and the highest
\* UID observed at the open.
C5_Bounds ==
    \A path \in DOMAIN newMaxUids :
        /\ path \in DOMAIN atOpen
        /\ OrZero(LastUid(path)) <= newMaxUids[path]
        /\ newMaxUids[path] <= Max({OrZero(LastUid(path)), HighestAtOpen(path)})

\* Within a cycle a tracked position stays tracked and does not decrease.
C5_NoDecrease ==
    cycle' = cycle =>
        \A path \in DOMAIN newMaxUids :
            path \in DOMAIN newMaxUids' /\ newMaxUids'[path] >= newMaxUids[path]

\* C5 amended: in every reachable state lastUid <= newMaxUids[path] <= currentMax,
\* currentMax being the larger of lastUid and the highest UID observed at the
\* open (so no message that arrives later, above it, advances the position), and
\* no step of a cycle decreases a tracked position.
C5_TrackedWithinCurrentMax == []C5_Bounds /\ [][C5_NoDecrease]_vars

\* A mailbox completed with its position advanced, and a message that arrived
\* after the open, above currentMax, lies above the position.
C5_Witness ==
    \E path \in DOMAIN newMaxUids :
        /\ mbStatus[path] = "ok"
        /\ newMaxUids[path] > OrZero(LastUid(path))
        /\ \E u \in Uids(path) : u \notin atOpen[path] /\ u > newMaxUids[path]

(***************************************************************************)
(* C6 - C8: withRetry.  The retry record counts, for the withRetry call in *)
(* progress or just returned, the attempts begun (attempt), the invocations*)
(* of the operation (opCalls), the attempts that failed in connect()       *)
(* (connFails) and the delays waited (nDelays).                            *)
(***************************************************************************)
\* withRetry(mailboxOpen) has returned the result of the operation.
Returned == pc = "fetchOne"

\* C6: when withRetry returns the result of the operation, the attempt that
\* succeeded is attempt k+1 <= maxAttempts after k failed attempts: k delays have
\* been waited, one per failed attempt and none after the success, every attempt
\* invoked the operation unless its connect failed, and so an operation that
\* itself failed k times has been invoked exactly k+1 times.
C6_ReturnsAfterKPlusOneAttempts ==
    Returned =>
        /\ retry.attempt \in 1..MaxRetries
        /\ retry.nDelays = retry.attempt - 1
        /\ retry.opCalls + retry.connFails = retry.attempt
        /\ retry.connFails = 0 => retry.opCalls = retry.nDelays + 1

\* The operation failed on the first maxAttempts-1 attempts and succeeded on the
\* last one.
C6_Witness ==
    /\ Returned
    /\ retry.attempt = MaxRetries
    /\ retry.connFails = 0
    /\ retry.opCalls = MaxRetries
    /\ retry.nDelays = MaxRetries - 1

\* Never more than maxAttempts attempts, and no backoff after the last one.
C7_AtMostMaxAttempts ==
    /\ retry.attempt <= MaxRetries
    /\ retry.opCalls + retry.connFails <= MaxRetries
    /\ pc = "backoff" => retry.attempt < MaxRetries
    /\ outcome = "raised" =>
          /\ retry.attempt = MaxRetries
          /\ retry.opCalls + retry.connFails = MaxRetries
          /\ retry.nDelays = MaxRetries - 1

\* A step in which withRetry leaves by a failure (to the caller of fetchEmails
\* from the list, to the catch of the mailbox loop from the open) is taken from
\* a failure of attempt maxAttempts, maxAttempts-1 delays having been waited.
C7_FailsOnlyFromLastAttempt ==
    (/\ pc \in {"connect", "action", "backoff"}
     /\ \/ outcome' = "raised"
        \/ \E p \in Paths : mbStatus'[p] = "failed" /\ mbStatus[p] # "failed")
    => /\ pc # "backoff"
       /\ retry.attempt = MaxRetries
       /\ retry.opCalls + retry.connFails = MaxRetries - 1
       /\ retry.nDelays = MaxRetries - 1

\* C7: when every attempt fails withRetry makes exactly maxAttempts attempts,
\* waits no backoff after the last failure and propagates the failure; it never
\* makes more than maxAttempts attempts.
C7_ExactlyMaxAttemptsThenFails ==
    []C7_AtMostMaxAttempts /\ [][C7_FailsOnlyFromLastAttempt]_vars

\* The list failed on every attempt, each time in the operation, and the cycle
\* has raised.
C7_Witness ==
    /\ outcome = "raised"
    /\ retry.opCalls = MaxRetries
    /\ retry.nDelays = MaxRetries - 1

\* The delay being waited after the n-th failed attempt is 2^n seconds plus a
\* jitter in [0, 1 s), in milliseconds.
C8_DelayInRange ==
    pc = "backoff" =>
        /\ retry.attempt \in 1..(MaxRetries - 1)
        /\ retry.lastDelay >= (2 ^ retry.attempt) * 1000
        /\ retry.lastDelay < (2 ^ retry.attempt) * 1000 + JitterRange

\* A delay begun after an earlier one of the same withRetry call is longer.
C8_DelaysIncrease ==
    (pc # "backoff" /\ pc' = "backoff" /\ retry.nDelays >= 1)
        => retry'.lastDelay > retry.lastDelay

\* C8: the delay after the n-th failed attempt, n = 1 .. maxAttempts-1, is
\* 2^n s plus a jitter of at least 0 and less than 1 s, and whatever the jitter
\* values the delays of successive retries strictly increase.
C8_ExponentialBackoff == []C8_DelayInRange /\ [][C8_DelaysIncrease]_vars

\* The fourth delay is being waited, with the largest jitter.
C8_Witness ==
    /\ pc = "backoff"
    /\ retry.nDelays = MaxRetries - 1
    /\ retry.lastDelay = (2 ^ (MaxRetries - 1)) * 1000 + JitterRange - 1

(***************************************************************************)
(* C9                                                                      *)
(***************************************************************************)
\* C9: an operation never runs on a connection object on which an operation or
\* the connect has failed before: each attempt after a failure runs on a newly
\* created connection.
C9_FailedConnectionNeverReused ==
    pc \in {"action", "fetchOne", "stream"} => ~client.failed

(***************************************************************************)
(* C10                                                                     *)
(***************************************************************************)
\* A mailbox is abandoned on the failure of a protocol operation only from the
\* last attempt of a withRetry call.
C10_AbandonedOnlyAfterRetries ==
    (/\ pc # "parse"
     /\ \E p \in Paths : mbStatus'[p] = "failed" /\ mbStatus[p] # "failed")
    => (pc \in {"connect", "action"} /\ retry.attempt = MaxRetries)

\* C10: every protocol operation of a cycle (list, open, the fetch of the newest
\* message, each fetch by UID range) runs under withRetry: a failure of any of
\* them is retried up to maxAttempts before the mailbox is abandoned.
C10_EveryOperationUnderWithRetry == [][C10_AbandonedOnlyAfterRetries]_vars

(***************************************************************************)
(* C11                                                                     *)
(***************************************************************************)
\* The mailboxes the filter lets through, as a set.
ProcessablePaths == RangeOf(PathsOf(ProcessableMailboxes(Listing, allInclusiveArchive)))

\* A step in which a mailbox fails does not raise out of fetchEmails: the
\* mailbox leaves the queue and, if a mailbox follows it, the loop goes on to
\* the open of that mailbox.
C11_FailureIsCaught ==
    (\E p \in Paths : mbStatus'[p] = "failed" /\ mbStatus[p] # "failed")
    => /\ outcome' # "raised"
       /\ queue' = Tail(queue)
       /\ IF Tail(queue) = <<>>
          THEN pc' = "done" /\ outcome' = "completed"
          ELSE pc' = "connect" /\ retry'.op = "open" /\ retry'.attempt = 1

\* A cycle raises only before any mailbox is processed, and a cycle that ran to
\* its end has processed every mailbox of the filter's result, whatever failed.
C11_EveryMailboxProcessed ==
    /\ outcome = "raised" => \A p \in Paths : mbStatus[p] = "none"
    /\ (pc = "done" /\ outcome = "completed") =>
          \A p \in ProcessablePaths : mbStatus[p] \in {"ok", "failed"}

\* C11: a failure while processing a mailbox (the open failing after all
\* retries, a fetch error, a parse error) is caught at the mailbox loop: it does
\* not raise out of fetchEmails and the mailboxes after it are still processed
\* in the same cycle.
C11_MailboxFailureIsolated == []C11_EveryMailboxProcessed /\ [][C11_FailureIsCaught]_vars

\* INBOX failed, and Spam, after it in the enumeration, was opened and its
\* message yielded.
C11_Witness ==
    /\ pc = "done"
    /\ mbStatus["INBOX"] = "failed"
    /\ mbStatus["Spam"] = "ok"
    /\ \E i \in 1..Len(yielded) : yielded[i][1] = "Spam"

(***************************************************************************)
(* C12                                                                     *)
(***************************************************************************)
\* A step in which a mailbox is abandoned from the last attempt of withRetry
\* leaves the status note set.
C12_ExhaustionSetsNote ==
    (/\ pc \in {"connect", "action"}
     /\ retry.attempt = MaxRetries
     /\ \E p \in Paths : mbStatus'[p] = "failed" /\ mbStatus[p] # "failed")
    => statusMessage'

\* C12: whenever a mailbox is abandoned because withRetry exhausted its
\* attempts, the sync state getUpdatedSyncState returns for the cycle carries a
\* status note.
C12_StatusNoteOnExhaustion == [][C12_ExhaustionSetsNote]_vars

(***************************************************************************)
(* C13                                                                     *)
(***************************************************************************)
\* C13: once the generator has finished, by normal completion, by a failure
\* raised out of it or by the consumer stopping early, the connection has been
\* logged out: no usable connection remains.
C13_DisconnectedOnEveryExit ==
    pc = "done" =>
        /\ outcome \in {"completed", "raised", "stopped"}
        /\ ~client.usable

\* The consumer stopped at a yield, with the connection in use until then, and
\* the generator has finished.
C13_Witness ==
    /\ pc = "done"
    /\ outcome = "stopped"
    /\ yielded # <<>>
    /\ ~client.usable

(***************************************************************************)
(* C14                                                                     *)
(***************************************************************************)
\* The special-use tag or the flags of the mailbox identify it as Junk or Trash.
IsJunkOrTrash(mailbox) ==
    \/ mailbox.specialUse \in {"\\Junk", "\\Trash", "\\JUNK", "\\TRASH"}
    \/ "\\Junk" \in mailbox.flags
    \/ "\\Trash" \in mailbox.flags

\* The mailbox the filter should let through.
ShouldProcess(mailbox, allInclusive) ==
    /\ "\\Noselect" \notin mailbox.flags
    /\ allInclusive \/ ~IsJunkOrTrash(mailbox)

\* C14: the filter's result holds, in the order of the listing, exactly the
\* mailboxes that are not flagged \Noselect and, without the archive-everything
\* override, are not identified as Junk or Trash by special-use tag or flags;
\* with the override it holds every selectable mailbox.
C14_FilterKeepsExactlyTheProcessable ==
    filterOut # Unfiltered =>
        filterOut = SelectSeq(filterIn, LAMBDA m : ShouldProcess(m, allInclusiveArchive))

\* Without the override a listing of a Junk mailbox (by tag only) and a plain one
\* has been filtered down to the plain one.
C14_Witness ==
    /\ filterOut # Unfiltered
    /\ ~allInclusiveArchive
    /\ filterIn[1].specialUse = "\\Junk" /\ filterIn[1].flags = {}
    /\ filterIn[2].specialUse = NoSpecialUse /\ filterIn[2].flags = {}
    /\ filterOut = << filterIn[2] >>

(***************************************************************************)
(* C15                                                                     *)
(***************************************************************************)
\* The place of a mailbox in the enumeration client.list() returned.
PathIndex(path) == CHOOSE i \in 1..Len(Listing) : Listing[i].path = path

\* C15: the messages yielded in a cycle come mailbox by mailbox in enumeration
\* order, none of a later mailbox before one of an earlier mailbox, and a
\* mailbox has been opened only if every processable mailbox before it in the
\* enumeration has finished (completed or failed); the one mailbox opened and
\* not finished is the current one.
C15_OneMailboxAfterAnother ==
    /\ \A i, j \in 1..Len(yielded) :
          i < j => PathIndex(yielded[i][1]) <= PathIndex(yielded[j][1])
    /\ \A p \in DOMAIN atOpen :
          /\ \A q \in ProcessablePaths :
                PathIndex(q) < PathIndex(p) => mbStatus[q] \in {"ok", "failed"}
          /\ mbStatus[p] = "none" => (queue # <<>> /\ Head(queue) = p)

\* A message of INBOX, then one of Spam, have been yielded; Spam is open and
\* INBOX has finished.
C15_Witness ==
    /\ pc = "suspended"
    /\ Len(yielded) = 2
    /\ yielded[1][1] = "INBOX"
    /\ yielded[2][1] = "Spam"
    /\ mbStatus["INBOX"] = "ok"
    /\ Head(queue) = "Spam"

(***************************************************************************)
(* C16 - C20: the OAuth code.                                              *)
(***************************************************************************)
\* A token resolution (getOAuthAccessToken or getToken) of caller c has
\* returned, having found the credential.
Resolved(c) ==
    /\ frame[c].op \in {"getOAuthAccessToken", "getToken"}
    /\ frame[c].pc = "returned"
    /\ frame[c].seen # NoRow

\* The access token a resolution hands back, in plaintext (getToken hands back
\* the row, with the token encrypted); NullToken when it hands back null.
ResolvedToken(c) ==
    IF frame[c].op = "getOAuthAccessToken" THEN frame[c].result
    ELSE IF frame[c].result = NoRow THEN NullToken
    ELSE Decrypt(frame[c].result.accessToken)

\* C16: a token resolution calls refresh exactly when the expiry stored in the
\* row it selected was before the time of the selection; then the token
\* returned, if any, is the one the refresh obtained; with an expiry not before
\* that time (or none) refresh is not called and the stored access token is
\* returned.
C16_RefreshExactlyWhenExpired ==
    \A c \in Callers :
        Resolved(c) =>
            LET f == frame[c]
                past == f.seen.expiresAt # NoExpiry /\ f.seen.expiresAt < f.seenAt
            IN  /\ f.invoked <=> past
                /\ past => (ResolvedToken(c) # NullToken =>
                               /\ f.refreshed
                               /\ ResolvedToken(c) = f.response.access_token
                               /\ ResolvedToken(c) # Decrypt(f.seen.accessToken))
                /\ ~past => (~f.refreshed /\ ResolvedToken(c) = Decrypt(f.seen.accessToken))

\* The connector's resolution found the credential expired and returned the
\* access token the refresh obtained.
C16_Witness ==
    /\ Resolved("sync")
    /\ frame["sync"].seen.expiresAt = 0
    /\ frame["sync"].refreshed
    /\ frame["sync"].result = AccessToken(1)

\* A call of refreshToken by caller c (direct, or from a token resolution) has
\* ended by throwing.
RefreshFailed(c) ==
    /\ frame[c].pc = "returned"
    /\ frame[c].op = "refreshToken" \/ frame[c].invoked
    /\ ~frame[c].refreshed

\* The step in which the token endpoint's refusal, or the failure of the
\* request, ends refreshToken: the store is as before and the direct caller
\* gets the error.
C17_RejectionWritesNothing ==
    \A c \in Callers :
        (frame[c].pc = "post" /\ frame'[c].pc = "returned")
        => /\ tokens' = tokens
           /\ frame[c].op = "refreshToken" =>
                 frame'[c].error = "Failed to refresh OAuth token"

\* A refreshToken call that threw has not written to the store.
C17_FailedRefreshHasNotWritten ==
    \A c \in Callers : RefreshFailed(c) => ~frame[c].wrote

\* C17: when the provider rejects the refresh grant or the request fails,
\* refreshToken throws and has left the stored credential as it was: access
\* token, refresh token, expiry and updated-at (no partial write).
C17_RejectedRefreshLeavesCredential ==
    []C17_FailedRefreshHasNotWritten /\ [][C17_RejectionWritesNothing]_vars

\* A direct refreshToken posted its request, was refused and threw, the
\* credential still stored.
C17_Witness ==
    /\ frame["api"].op = "refreshToken"
    /\ frame["api"].pc = "returned"
    /\ frame["api"].error = "Failed to refresh OAuth token"
    /\ frame["api"].requests = 1
    /\ tokens # {}

\* The step of refreshToken that finds no row for the id, or a row without
\* refresh token: the call ends there, with the error for a direct caller, no
\* request posted and the store as before.
C18_NothingToRefreshWith ==
    \A c \in Callers :
        (/\ frame[c].pc = "refreshSelect"
         /\ frame'[c] # frame[c]
         /\ \/ \A r \in tokens : r.id # TokenId
            \/ \E r \in tokens : r.id = TokenId /\ r.refreshToken = NullColumn)
        => /\ frame'[c].pc = "returned"
           /\ ~frame'[c].refreshed
           /\ frame'[c].requests = frame[c].requests
           /\ tokens' = tokens
           /\ frame[c].op = "refreshToken" =>
                 frame'[c].error = IF tokens = {} THEN "OAuth token not found"
                                   ELSE "No refresh token available"

\* A direct refreshToken that ended with one of the two errors has posted no
\* request and written nothing.
C18_FailedBeforeAnyRequest ==
    \A c \in Callers :
        (/\ frame[c].op = "refreshToken"
         /\ frame[c].error \in {"OAuth token not found", "No refresh token available"})
        => (frame[c].requests = 0 /\ ~frame[c].wrote /\ ~frame[c].refreshed)

\* C18: refreshToken on a credential without stored refresh token, or on an id
\* that does not exist, throws before any request is sent to the token endpoint
\* and without modifying the store.
C18_NoRefreshTokenFailsEarly ==
    []C18_FailedBeforeAnyRequest /\ [][C18_NothingToRefreshWith]_vars

\* A direct refreshToken on the stored credential, which has no refresh token,
\* has thrown.
C18_Witness ==
    /\ frame["api"].op = "refreshToken"
    /\ frame["api"].pc = "returned"
    /\ frame["api"].error = "No refresh token available"
    /\ \E r \in tokens : r.refreshToken = NullColumn

\* The step in which a refreshToken call of caller c that obtained a response
\* updates the credential, the credential being still stored: the row is
\* replaced by one with the new access token encrypted, the new refresh token
\* encrypted if the response carries one and the stored refresh token
\* otherwise, the expiry computed from expires_in, and id, owner, provider,
\* email and created-at as before; no row is added or removed.
C19_UpdateInPlace ==
    \A c \in Callers :
        (/\ frame[c].pc = "update"
         /\ frame'[c].pc = "returned"
         /\ \E r \in tokens : r.id = TokenId)
        => \E old \in tokens, new \in tokens' :
              /\ old.id = TokenId
              /\ tokens' = (tokens \ {old}) \cup {new}
              /\ new.accessToken = Encrypt(frame[c].response.access_token)
              /\ new.refreshToken =
                    IF frame[c].response.refresh_token # NullToken
                    THEN Encrypt(frame[c].response.refresh_token)
                    ELSE old.refreshToken
              /\ new.expiresAt = frame[c].expiresAt
              /\ new.id = old.id /\ new.userId = old.userId
              /\ new.provider = old.provider /\ new.email = old.email
              /\ new.createdAt = old.createdAt

\* C19: a successful refresh mutates the credential in place: new access token
\* (encrypted), refresh token replaced if the provider returned one and
\* otherwise unchanged, expiry now + expires_in, identity columns unchanged, no
\* row added or removed.
C19_SuccessfulRefreshMutatesInPlace == [][C19_UpdateInPlace]_vars

\* A step in which the connect of the sync engine invokes refreshToken is taken
\* only while no refresh has failed in this withRetry operation.
C20_RefreshOnlyBeforeAFailure ==
    frame'["sync"].refreshCalls > frame["sync"].refreshCalls
        => frame["sync"].refreshFails = 0

\* C20: a failed token refresh is never retried: within one operation wrapped
\* by withRetry, once refreshing the credential has failed, refresh is not
\* invoked again.
C20_FailedRefreshNeverRetried == [][C20_RefreshOnlyBeforeAFailure]_vars

(***************************************************************************)
(* The pending authorizations: pkceSessionStore, its sweep and the         *)
(* callbacks that consume its sessions.                                    *)
(***************************************************************************)
\* The step in which the callback of user takes the session of a state.
Takes(user) == req[user].pc = "idle" /\ req'[user].pc = "exchange"

\* A callback takes a session, and goes on to the code exchange, only while
\* the session is no older than the time-to-live.
C21_TakesOnlyWithinTtl ==
    \A user \in Users :
        Takes(user) => now - pkceSessionStore[req'[user].state].timestamp <= Ttl

\* C21: a callback whose pending-authorization entry is older than the
\* 10-minute time-to-live is rejected and performs no code exchange, at
\* whatever moment after expiry it arrives.
C21_ExpiredEntryIsRejected == [][C21_TakesOnlyWithinTtl]_vars

\* The step is a start request that issues state s.
Issues(s) ==
    /\ Len(flows') = Len(flows) + 1
    /\ flows'[Len(flows')].authorizationUrl.state = s

\* A session whose age does not exceed the time-to-live stays in the Map, as it
\* is, in every step but the callback that takes it and a start request that
\* draws its state again, which puts a new session in its place.
C22_FreshSessionStays ==
    \A s \in DOMAIN pkceSessionStore :
        (/\ now - pkceSessionStore[s].timestamp <= Ttl
         /\ ~\E user \in Users : Takes(user) /\ req'[user].state = s)
        => /\ s \in DOMAIN pkceSessionStore'
           /\ ~Issues(s) => pkceSessionStore'[s] = pkceSessionStore[s]

\* C22: an unconsumed pending authorization created at time T is retrievable
\* by a callback at any time up to T + 10 minutes: the sweep never removes an
\* entry whose age does not exceed the time-to-live, and nothing else removes
\* it.
C22_RetrievableWithinTtl == [][C22_FreshSessionStays]_vars

\* The sweep has just run over a session whose age is exactly the time-to-live,
\* and the session is in the Map.
C22_Witness ==
    /\ nextSweep = now + SweepInterval
    /\ \E s \in DOMAIN pkceSessionStore : now - pkceSessionStore[s].timestamp = Ttl

\* The step in which a callback of user presenting state s arrives and is
\* answered at once.
AnsweredAtOnce(user, s) ==
    /\ req[user].pc = "idle"
    /\ reply' # reply
    /\ reply'.user = user /\ reply'.op = "callback" /\ reply'.state = s

\* The Map holds one session per state, under its own state, and none that a
\* callback has taken; no session has been handed to two callbacks.
C23_OneLiveSessionPerState ==
    /\ \A s \in DOMAIN pkceSessionStore :
          /\ pkceSessionStore[s].state = s
          /\ flows[FlowOf(pkceSessionStore[s])].handed = 0
    /\ \A n \in DOMAIN flows : flows[n].handed <= 1

\* The callback that takes the session of a state removes it, and a callback
\* that presents a state without session is answered with the error and sends
\* no code to the provider.
C23_TakeRemoves ==
    \A user \in Users :
        /\ Takes(user) => /\ req'[user].state \in DOMAIN pkceSessionStore
                          /\ req'[user].state \notin DOMAIN pkceSessionStore'
        /\ \A s \in States \ DOMAIN pkceSessionStore :
              AnsweredAtOnce(user, s)
              => /\ reply'.result.error = "Invalid or expired state parameter"
                 /\ req' = req /\ tokens' = tokens /\ issued' = issued

\* C23: consumption of a pending authorization is single-use: once a callback
\* has taken the verifier for state s the entry is gone, every later callback
\* presenting s is rejected and triggers no code exchange unless a new start
\* request has issued s again, and at most one entry exists per state value.
C23_SingleUse == []C23_OneLiveSessionPerState /\ [][C23_TakeRemoves]_vars

\* A callback has taken the session of a state, and a later callback that
\* presented the same state has been rejected.
C23_Witness ==
    /\ reply.op = "callback"
    /\ reply.result.error = "Invalid or expired state parameter"
    /\ reply.state \notin DOMAIN pkceSessionStore
    /\ \E n \in DOMAIN flows :
          flows[n].authorizationUrl.state = reply.state /\ flows[n].handed = 1

\* The session of the n-th start request is in the Map.
InStore(n) == \E s \in DOMAIN pkceSessionStore : FlowOf(pkceSessionStore[s]) = n

\* The last run of the sweep that the clock of a run reaches.
LastSweep == SweepInterval * (MaxClock \div SweepInterval)

\* The session of the n-th start request is in the Map and grows older than
\* the time-to-live before the last run of the sweep.
Abandoned(n) ==
    \E s \in DOMAIN pkceSessionStore :
        /\ FlowOf(pkceSessionStore[s]) = n
        /\ pkceSessionStore[s].timestamp + Ttl < LastSweep

\* A run of the sweep leaves no session in the Map that is older than the
\* time-to-live.
C24_SweepLeavesNoStaleSession ==
    nextSweep' # nextSweep
        => \A s \in DOMAIN pkceSessionStore' :
              now - pkceSessionStore'[s].timestamp <= Ttl

\* C24: every pending-authorization entry is eventually removed even if no
\* callback ever consumes it: the sweep deletes each entry at the first run at
\* which its age exceeds 10 minutes, so under a fair timer abandoned flows do
\* not accumulate.
C24_EverySessionEventuallyRemoved ==
    /\ [][C24_SweepLeavesNoStaleSession]_vars
    /\ \A n \in 1..MaxFlows : Abandoned(n) ~> ~InStore(n)

\* The sweep has removed a session that no callback had taken.
C24_Witness ==
    \E n \in DOMAIN flows : flows[n].swept /\ flows[n].handed = 0

\* No session is handed to two callbacks, two callbacks in progress hold
\* different verifiers, and no callback has been handed a session that the
\* sweep removed.
C25_HandedToOneCallback ==
    /\ \A n \in DOMAIN flows :
          /\ flows[n].handed <= 1
          /\ ~(flows[n].swept /\ flows[n].handed > 0)
    /\ \A u1, u2 \in Users :
          (u1 # u2 /\ req[u1].pc = "exchange" /\ req[u2].pc = "exchange")
          => req[u1].codeVerifier # req[u2].codeVerifier

\* A start request that issues a state and a callback that takes the session
\* of a state leave the sessions of every other state as they are.
C25_OtherStatesUntouched ==
    \A s \in States :
        (Issues(s) \/ \E user \in Users : Takes(user) /\ req'[user].state = s)
        => \A t \in States \ {s} :
              /\ t \in DOMAIN pkceSessionStore' <=> t \in DOMAIN pkceSessionStore
              /\ t \in DOMAIN pkceSessionStore => pkceSessionStore'[t] = pkceSessionStore[t]

\* C25: under any interleaving of start requests, callbacks and runs of the
\* sweep, an entry's verifier is handed to at most one callback, a callback
\* never obtains a verifier from an entry the sweep has removed, and inserting
\* or consuming the entry of one state leaves the entries of all other states
\* unchanged.
C25_InterleavingsAreSafe == []C25_HandedToOneCallback /\ [][C25_OtherStatesUntouched]_vars

\* Two callbacks are in progress at once, each with the verifier of its own
\* flow, and the sweep has run.
C25_Witness ==
    /\ \A user \in Users : req[user].pc = "exchange"
    /\ nextSweep > SweepInterval

(***************************************************************************)
(* The authorization flow and the credentials it stores.                   *)
(***************************************************************************)
\* The start requests that issued state s, and the last of them.
FlowsOf(s) == {n \in DOMAIN flows : flows[n].authorizationUrl.state = s}
LatestFlow(s) == CHOOSE n \in FlowsOf(s) : \A m \in FlowsOf(s) : m <= n

\* The authorization URL of every start request carries the S256 digest of the
\* verifier generated in that request, and a callback in progress holds the
\* verifier of a start request that issued the state it presented.
C26_ChallengeOfOwnVerifier ==
    /\ \A n \in DOMAIN flows :
          /\ flows[n].authorizationUrl.code_challenge = [sha256 |-> flows[n].codeVerifier]
          /\ flows[n].authorizationUrl.code_challenge_method = "S256"
    /\ \A user \in Users :
          req[user].pc \in {"exchange", "store"}
          => \E n \in FlowsOf(req[user].state) : flows[n].codeVerifier = req[user].codeVerifier

\* The callback for a state sends the verifier of the start request that
\* issued the state last.
C26_VerifierOfLatestFlow ==
    \A user \in Users :
        Takes(user)
        => req'[user].codeVerifier = flows[LatestFlow(req'[user].state)].codeVerifier

\* C26: for every authorization flow the code_challenge in the authorization
\* URL issued with state s is the S256 digest of the verifier generated in
\* that start request, and the verifier the callback for s sends to the token
\* endpoint is that same verifier, never the verifier of another flow.
C26_PkceBinding == []C26_ChallengeOfOwnVerifier /\ [][C26_VerifierOfLatestFlow]_vars

\* Two flows with different states have been started, and the provider has
\* accepted the verifier that the callback of one of them sent.
C26_Witness ==
    /\ Len(flows) = 2
    /\ flows[1].authorizationUrl.state # flows[2].authorizationUrl.state
    /\ \E user \in Users : req[user].pc = "store"

\* The step in which the callback of user stores a credential.
Persists(user) == req[user].pc = "store" /\ req'[user].pc = "idle" /\ tokens' # tokens

\* A callback stores a credential for a user only if the session it took was
\* put into the Map by a start request of that user.
C27_PersistsOnlyForIssuer ==
    \A user \in Users :
        Persists(user) => flows[FlowOf(req[user])].user = user

\* C27: the state correlates the callback with the initiating session: a
\* callback persists a credential for user U only if the state it consumes was
\* issued by a start request made by U.
C27_StateBindsUser == [][C27_PersistsOnlyForIssuer]_vars

\* C28: after any sequence of authorization callbacks, refreshes and deletions
\* the table holds at most one row per (user, provider, email): completing the
\* flow again for the same user, provider and email adds no second row.
C28_OneRowPerOwnerProviderEmail ==
    \A r1, r2 \in tokens :
        (r1.userId = r2.userId /\ r1.provider = r2.provider /\ r1.email = r2.email)
            => r1 = r2

\* The value of a column is an output of encrypt: the ciphertext of a token
\* the provider issued.
EncryptOutput(column) ==
    /\ "cipher" \in DOMAIN column
    /\ column.cipher.kind \in {"access", "refresh"}
    /\ column = Encrypt(Decrypt(column))

\* C29 as stated: in every reachable state of the table each access-token and
\* each refresh-token field holds an output of encrypt.
C29_EveryTokenFieldIsEncryptOutput ==
    \A r \in tokens : EncryptOutput(r.accessToken) /\ EncryptOutput(r.refreshToken)

\* C29: in every reachable state of the table each access-token field holds
\* the encryption of an access token and each refresh-token field is null or
\* holds the encryption of a refresh token: storeToken and refresh encrypt
\* before they write and no operation persists a plaintext token.
C29_NoPlaintextTokenStored ==
    \A r \in tokens :
        /\ EncryptOutput(r.accessToken) /\ Decrypt(r.accessToken).kind = "access"
        /\ \/ r.refreshToken = NullColumn
           \/ EncryptOutput(r.refreshToken) /\ Decrypt(r.refreshToken).kind = "refresh"

\* A row that storeToken wrote with a refresh token has been rewritten by a
\* refresh.
C29_Witness ==
    /\ frame["api"].wrote
    /\ \E r \in tokens :
          /\ r.id = TokenId
          /\ EncryptOutput(r.refreshToken)
          /\ Decrypt(r.accessToken).n > 1

\* The values a token column can hold.
TokenValues ==
    {NullColumn} \cup {Encrypt(AccessToken(n)) : n \in 0..MaxIssued}
                 \cup {Encrypt(RefreshToken(n)) : n \in 0..MaxIssued}

\* The table with other values in the token columns of its rows.
WithTokenValues(rows, accessToken, refreshToken) ==
    {[r EXCEPT !.accessToken = accessToken, !.refreshToken = refreshToken] : r \in rows}

\* The fields of a listed credential.
Metadata == {"id", "provider", "email", "expiresAt", "scope", "createdAt", "updatedAt"}

\* The answer of list-credentials to user over a table.
ListAnswer(rows, user) == {SanitizedToken(t) : t \in ListUserTokens(rows, user)}

\* The messages and addresses an answer carries.
Messages ==
    {"none", "OAuth token not found", "No refresh token available",
     "Failed to refresh OAuth token", "Cannot read properties of undefined",
     "Invalid or expired state parameter",
     "Failed to exchange authorization code for token"} \cup BadQueries
Addresses == {"none"} \cup {EmailOf(u) : u \in Users}

\* The step that answers a request.
Answers == reply' # reply

\* list-credentials answers with the credentials of the caller and no other,
\* each with its metadata and nothing else, and the answer is the same over
\* every table that differs from this one in token values only.
C30_ListsOwnMetadataOnly ==
    (Answers /\ reply'.op = "listTokens") =>
        LET listed == reply'.result.tokens
            user == reply'.user
        IN  /\ \A t \in listed : DOMAIN t = Metadata
            /\ {t.id : t \in listed} = {r.id : r \in {o \in tokens : o.userId = user}}
            /\ \A t \in listed : \E r \in tokens :
                  /\ r.userId = user /\ r.id = t.id /\ r.provider = t.provider
                  /\ r.email = t.email /\ r.expiresAt = t.expiresAt /\ r.scope = t.scope
                  /\ r.createdAt = t.createdAt /\ r.updatedAt = t.updatedAt
            /\ \A a, b \in TokenValues : listed = ListAnswer(WithTokenValues(tokens, a, b), user)

\* The answers of start, callback, refresh and delete list nothing and carry a
\* message, an address and an expiry only.
C30_OtherAnswersCarryNoToken ==
    (Answers /\ reply'.op # "listTokens") =>
        /\ reply'.result.tokens = {}
        /\ reply'.result.error \in Messages
        /\ reply'.result.email \in Addresses
        /\ reply'.result.expiresAt \in {NoExpiry} \cup {r.expiresAt : r \in tokens'}

\* C30: list-credentials returns only the credentials owned by the caller and
\* only their metadata (id, provider, email, expiry, scope, timestamps), so two
\* tables that differ only in token values give the same answer; the answers of
\* start, callback, refresh and delete hold no token material either.
C30_AnswersHoldNoTokenMaterial ==
    [][C30_ListsOwnMetadataOnly /\ C30_OtherAnswersCarryNoToken]_vars

\* A user has listed a credential of their own while the table also holds a
\* credential of another user.
C30_Witness ==
    /\ reply.op = "listTokens"
    /\ reply.result.tokens # {}
    /\ \E r \in tokens : r.userId # reply.user

\* The step in which the code exchange of the callback of user fails.
Fails(user) == req[user].pc = "exchange" /\ req'[user].pc = "idle"

\* A failed exchange ends the callback with the error: the provider is not
\* asked again, the table and the Map are left as they are, and the session
\* whose verifier was sent is not in the Map.
C31_FailureEndsTheCallback ==
    \A user \in Users :
        Fails(user) =>
            /\ reply'.user = user /\ reply'.op = "callback"
            /\ reply'.result.error = "Failed to exchange authorization code for token"
            /\ req'[user] = IdleRequest
            /\ tokens' = tokens /\ issued' = issued
            /\ pkceSessionStore' = pkceSessionStore /\ flows' = flows
            /\ req[user].state \in DOMAIN pkceSessionStore
               => FlowOf(pkceSessionStore[req[user].state]) # FlowOf(req[user])

\* The session a callback has taken is handed out once and never again.
C31_TakenSessionIsGone ==
    \A n \in DOMAIN flows :
        flows[n].handed > 0 => flows[n].handed = 1 /\ ~InStore(n)

\* C31: if the code exchange fails it is not retried, no credential row is
\* created or modified, and the consumed state cannot be used for another
\* exchange: only a new start request makes a callback possible again.
C31_FailedExchangeIsFinal == []C31_TakenSessionIsGone /\ [][C31_FailureEndsTheCallback]_vars

\* An exchange has failed, and the state it consumed has no session.
C31_Witness ==
    /\ reply.op = "callback"
    /\ reply.result.error = "Failed to exchange authorization code for token"
    /\ reply.state \notin DOMAIN pkceSessionStore
    /\ \E n \in FlowsOf(reply.state) : flows[n].handed = 1
    /\ tokens = {}

\* The step in which parseMessage throws.
ParseThrows == pc = "parse" /\ pc' \notin {"parse", "suspended"}

\* A parse failure ends the mailbox: it leaves the queue as failed with nothing
\* yielded, the other mailboxes keep their status, nothing is raised, and the
\* loop goes on to the open of the next mailbox or the cycle completes.
C32_ParseFailureEndsMailbox ==
    ParseThrows =>
        /\ mbStatus' = [mbStatus EXCEPT ![Head(queue)] = "failed"]
        /\ queue' = Tail(queue)
        /\ yielded' = yielded /\ newMaxUids' = newMaxUids
        /\ outcome' # "raised"
        /\ IF Tail(queue) = <<>>
           THEN pc' = "done" /\ outcome' = "completed"
           ELSE pc' = "connect" /\ retry' = NewRetry("open")

\* A message is yielded, or handed to the parser, only from the mailbox at the
\* head of the queue while that mailbox has not ended, and the parser is handed
\* the messages of a mailbox in ascending order, each once.
C32_NoMoreOfFailedMailbox ==
    /\ (yielded' # yielded /\ cycle' = cycle) =>
          /\ yielded' = Append(yielded, << Head(queue), loc.msgUid >>)
          /\ mbStatus[Head(queue)] = "none"
    /\ (pc # "parse" /\ pc' = "parse") =>
          /\ mbStatus[Head(queue)] = "none"
          /\ loc'.msgUid > loc.cursor
          /\ \A i \in 1..Len(yielded) :
                yielded[i][1] = Head(queue) => yielded[i][2] < loc'.msgUid

\* A mailbox that has ended is not in the queue again in its cycle.
C32_EndedMailboxLeftQueue ==
    \A p \in Paths :
        mbStatus[p] \in {"ok", "failed"} => \A i \in 1..Len(queue) : queue[i] # p

\* C32: a parse failure on message u of mailbox m aborts m's fetch loop: no
\* further message of m is yielded in that cycle, the parse of u is not retried
\* within the cycle, and the failure stays confined to m: the cycle continues
\* with the next mailbox.
C32_ParseFailureIsFatalForMailbox ==
    /\ []C32_EndedMailboxLeftQueue
    /\ [][C32_ParseFailureEndsMailbox /\ C32_NoMoreOfFailedMailbox]_vars

\* The parse of a message of INBOX failed while a message was behind it, which
\* was not yielded, and the cycle went on to Spam and completed.
C32_Witness ==
    /\ pc = "done" /\ outcome = "completed"
    /\ mbStatus["INBOX"] = "failed"
    /\ mbStatus["Spam"] = "ok"
    /\ "INBOX" \in DOMAIN newMaxUids \cap DOMAIN atOpen
    /\ \E m \in mbox["INBOX"] :
          /\ m.kind = "bad" /\ newMaxUids["INBOX"] = m.uid
          /\ \E u \in atOpen["INBOX"] :
                u > m.uid /\ \A i \in 1..Len(yielded) : yielded[i] # << "INBOX", u >>

\* The step in which connect() opens a protocol connection.
Opens == frame["sync"].pc # "connected" /\ frame'["sync"].pc = "connected"

\* With OAuth a connection is opened only from a token resolution of the same
\* connect() that returned an access token, and with that token as bearer;
\* without OAuth it is opened with the password, no token resolution made.
C33_OpensWithResolvedToken ==
    Opens =>
        LET f == frame["sync"]
        IN  IF useOAuth
            THEN /\ f.op = "getOAuthAccessToken" /\ f.pc = "returned"
                 /\ f.seen # NoRow
                 /\ f.result # NullToken /\ f.result.kind = "access"
                 /\ f.result = IF f.refreshed THEN f.response.access_token
                                ELSE Decrypt(f.seen.accessToken)
                 /\ frame'["sync"].auth = [user |-> "username", accessToken |-> f.result]
            ELSE /\ f.op = "connect" /\ f.pc = "connecting"
                 /\ f.seen = NoRow /\ f.refreshCalls = 0 /\ f.requests = 0
                 /\ frame'["sync"].auth = [user |-> "username", pass |-> "password"]

\* No connection is open with any other credential, a connect() that obtained
\* no token has opened none, and without OAuth connect() never resolves a token.
C33_NoOtherCredential ==
    LET f == frame["sync"]
    IN  /\ f.pc # "connected" => f.auth = NoAuth
        /\ (f.pc = "connected" /\ useOAuth) =>
              /\ "accessToken" \in DOMAIN f.auth /\ "pass" \notin DOMAIN f.auth
              /\ f.auth.accessToken.kind = "access"
        /\ (f.pc = "connected" /\ ~useOAuth) => "pass" \in DOMAIN f.auth
        /\ ~useOAuth =>
              /\ f.pc \in {"idle", "connecting", "connected", "gaveUp"}
              /\ issued = 0 /\ f.refreshCalls = 0 /\ f.requests = 0

\* A connect() whose token resolution returned no token fails: the attempt
\* ends in withRetry's catch.
C33_NoTokenNoConnection ==
    LET f == frame["sync"]
    IN  (useOAuth /\ f.pc = "returned" /\ f.result = NullToken /\ frame'["sync"] # f)
        => /\ frame'["sync"].auth = NoAuth
           /\ \/ frame'["sync"].pc = "gaveUp"
              \/ frame'["sync"].pc = "select" /\ frame'["sync"].attempt = f.attempt + 1

\* C33: with OAuth every protocol connection opened was preceded, in the same
\* connect(), by a token resolution that returned a token and authenticates
\* with exactly that bearer token; none is opened with the password or the
\* placeholder token, and if no token can be obtained connect fails without
\* opening one.  Without OAuth the connection uses the stored password and no
\* token resolution occurs.
C33_ConnectsWithResolvedCredential ==
    /\ []C33_NoOtherCredential
    /\ [][C33_OpensWithResolvedToken /\ C33_NoTokenNoConnection]_vars

\* With OAuth, a first connect() got no token, and a later one of the same
\* withRetry refreshed the credential and opened the connection with the new
\* access token.
C33_Witness ==
    /\ useOAuth
    /\ frame["sync"].pc = "connected"
    /\ frame["sync"].attempt > 1
    /\ frame["sync"].refreshed
    /\ frame["sync"].auth = BearerAuth(AccessToken(issued))

\* The step in which the batch loop requests the range startUid:endUid.
IssuesRange == pc = "batch" /\ pc' = "stream"

\* The batch loop starts at lastUid + 1 with currentMax as its limit; each
\* range it requests is not empty, spans at most BATCH_SIZE UIDs and ends at
\* the limit or BATCH_SIZE - 1 above its start, whichever is lower; the next
\* range starts one above the end of the last; and the loop ends, the mailbox
\* complete, with the range that ended at the limit.
C34_RangesTileTheInterval ==
    /\ (pc = "fetchOne" /\ pc' = "batch") =>
          /\ loc'.startUid = OrZero(LastUid(Head(queue))) + 1
          /\ loc'.currentMaxUid =
                Max({OrZero(LastUid(Head(queue))), UidAtSeq(Head(queue), loc.exists)})
    /\ IssuesRange =>
          /\ loc'.startUid = loc.startUid /\ loc'.currentMaxUid = loc.currentMaxUid
          /\ loc.startUid <= loc'.endUid
          /\ loc'.endUid - loc.startUid + 1 <= BATCH_SIZE
          /\ loc'.endUid <= loc.currentMaxUid
          /\ loc'.endUid < loc.currentMaxUid => loc'.endUid - loc.startUid + 1 = BATCH_SIZE
          /\ OrZero(LastUid(Head(queue))) < loc.startUid
    /\ (pc = "stream" /\ pc' = "batch") =>
          /\ loc'.startUid = loc.endUid + 1
          /\ loc'.currentMaxUid = loc.currentMaxUid
    /\ (pc = "batch" /\ pc' # "batch" /\ ~IssuesRange) =>
          /\ mbStatus'[Head(queue)] = "ok"
          /\ loc.startUid = loc.currentMaxUid + 1

\* No range is requested of a mailbox that was empty when it was opened: the
\* body of the batch loop is reached only for a mailbox that held messages.
C34_NoFetchOfEmptyMailbox ==
    pc \in {"fetchOne", "batch", "stream", "parse", "suspended"} =>
        /\ Head(queue) \in DOMAIN atOpen
        /\ atOpen[Head(queue)] # {}

\* C34: the batch loop requests UID ranges [startUid, endUid] that each span at
\* most 250 UIDs, are contiguous and do not overlap, begin at lastUid + 1 and
\* end at currentMax, so that their union is (lastUid, currentMax]; no range is
\* requested when the mailbox is empty or when currentMax <= lastUid.
C34_BatchRangesCoverExactly == []C34_NoFetchOfEmptyMailbox /\ [][C34_RangesTileTheInterval]_vars

\* The second range of a mailbox is being fetched: it starts one above the
\* 250 UIDs of the first and ends at currentMax.
C34_Witness ==
    /\ pc = "stream"
    /\ loc.startUid = OrZero(LastUid(Head(queue))) + 1 + BATCH_SIZE
    /\ loc.endUid = loc.currentMaxUid
    /\ loc.endUid > loc.startUid

\* A cycle is in progress.
CycleRuns == pc \notin {"idle", "done"}

\* A cycle that has ended has ended normally, by the failure of the listing or
\* by the consumer's return, and in each case the client is logged out; while
\* withRetry runs, its attempt is one of the maxRetries.
C35_EndsDisconnected ==
    /\ pc = "done" => ~client.usable /\ outcome \in {"completed", "raised", "stopped"}
    /\ pc \in {"connect", "action", "backoff"} => retry.attempt \in 1..MaxRetries

\* withRetry's attempt number and the batch loop's startUid only go up, the
\* latter by at least one with every batch and never more than one past
\* currentMax.
C35_LoopsAdvance ==
    /\ (cycle' = cycle /\ retry'.op = retry.op /\ retry.op # "none" /\ queue' = queue
        /\ pc' # "done")
          => retry'.attempt >= retry.attempt
    /\ (pc = "backoff" /\ pc' = "connect" /\ retry'.op = retry.op /\ queue' = queue)
          => retry'.attempt = retry.attempt + 1
    /\ (pc = "stream" /\ pc' = "batch") =>
          /\ loc'.startUid > loc.startUid
          /\ loc'.startUid <= loc.currentMaxUid + 1

\* C35: every sync cycle terminates: whatever the mailboxes and messages and
\* whichever operations fail, fetchEmails finishes, normally or by propagating
\* a failure, and ends disconnected; withRetry never goes beyond maxAttempts
\* and the startUid of the batch loop strictly increases until it exceeds
\* currentMax.
C35_EveryCycleTerminates ==
    /\ []C35_EndsDisconnected
    /\ [][C35_LoopsAdvance]_vars
    /\ CycleRuns ~> pc = "done"

\* A second cycle has ended, disconnected, after a mailbox of it failed.
C35_Witness ==
    /\ pc = "done" /\ cycle = MaxCycles
    /\ ~client.usable
    /\ \E p \in Paths : mbStatus[p] = "failed"

\* C36: for every mailbox path present in the sync position passed into a
\* cycle, the sync state getUpdatedSyncState returns after the cycle contains
\* that path with a UID not lower than the one passed in, also for a mailbox
\* whose open failed after all retries, that the filter excluded or that the
\* server no longer lists.
C36_ReturnedStateKeepsEveryPath ==
    pc = "done" =>
        \A path \in DOMAIN syncState :
            /\ path \in DOMAIN GetUpdatedSyncState.imap
            /\ GetUpdatedSyncState.imap[path] >= syncState[path]

\* The request of a user to delete a credential removes only rows that user
\* owns, and the request of a user to refresh a credential has rewritten only
\* a row that user owns.
C37_OnlyOwnCredential ==
    /\ (Answers /\ reply'.op = "deleteToken") =>
          \A r \in tokens \ tokens' : r.userId = reply'.user
    /\ (Answers /\ reply'.op = "refreshToken" /\ frame["api"].wrote) =>
          frame["api"].result.userId = reply'.user

\* C37: credentials are user-specific: a delete-credential or manual-refresh
\* request made by authenticated user U deletes or refreshes only a credential
\* whose owner is U; a credential of another user is never deleted or modified
\* by U's request.
C37_CredentialsAreUserSpecific == [][C37_OnlyOwnCredential]_vars

\* The refresh token a row holds, by the number of the response that issued
\* it (0: the one the credential was stored with).
StoredRefreshNumber(rows) ==
    Decrypt((CHOOSE r \in rows : r.id = TokenId).refreshToken).n

\* The step in which a refresh call writes the refresh token the provider
\* rotated to does not put an older refresh token in the place of a newer one.
C38_NoNewerTokenOverwritten ==
    \A c \in Callers :
        (/\ frame[c].pc = "update" /\ frame'[c].pc = "returned"
         /\ frame[c].response.refresh_token # NullToken
         /\ \E r \in tokens : r.id = TokenId /\ r.refreshToken # NullColumn
         /\ \E r \in tokens' : r.id = TokenId)
        => StoredRefreshNumber(tokens') >= StoredRefreshNumber(tokens)

\* C38: under any interleaving of two concurrent refresh calls on the same
\* credential against a provider that rotates refresh tokens, the refresh
\* token left in the store is the most recent one the provider issued for the
\* credential: no update is lost and no stale refresh token is written back.
C38_ConcurrentRefreshKeepsLatest == [][C38_NoNewerTokenOverwritten]_vars

\* The step that answers a request without identity.
AnswersNoUser == reply' # reply /\ reply'.user = NoUser

\* C39: a request that carries no authenticated user identity changes
\* nothing: the handler (start, callback, refresh, list, delete) refuses it
\* and leaves both the Map of pending authorizations and the table of
\* credentials as they were.
C39_NoIdentityNoEffect ==
    [][AnswersNoUser =>
          /\ reply'.result.error # "none"
          /\ reply'.result.tokens = {} /\ reply'.result.email = "none"
          /\ pkceSessionStore' = pkceSessionStore
          /\ tokens' = tokens
          /\ req' = req /\ issued' = issued]_vars
====
